---- MODULE Spec2Model ----
(***************************************************************************)
(* A model of the arxiv bot: the request registry (bots/arxiv/requests.py) *)
(* with its JSON snapshot file, the command router (Arxiv.handle_event),   *)
(* and the rate-limited dispatcher (send_updates_to_single_request,        *)
(* send_updates_to_all_requests).                                          *)
(*                                                                         *)
(* Python values are modelled as follows.  A str is a TLA+ string, an int  *)
(* an integer, None the value NoneVal.  A tuple and a list are different   *)
(* Python values (("a",) == ["a"] is False), so they are tagged:           *)
(* PyTuple(s) and PyList(s).  A dict is a function on its keys.            *)
(***************************************************************************)
EXTENDS Integers, Sequences, FiniteSets, TLC

VARIABLES
    phase,      \* "init" before Arxiv.__init__ ran, "running", "stopped" after exit_handler,
                \* "crashed" when an exception left __init__
    requests,   \* RequestList.requests: an insertion-ordered dict, as the sequence of its values
    file,       \* what is stored at Arxiv.db_file
    nextUuid,   \* how many uuid4 values were handed to stored requests
    sent,       \* the payloads handed to client.send_message by the latest handler or dispatch
    loads,      \* how often RequestList.load_from_file ran
    writes,     \* outcome of the latest save_to_file: "none", "ok", "open_failed", "dump_failed"
    now,        \* the monotonic clock, in seconds
    limiter,    \* state of the @limits(calls=1, period=3) decorator: [last_reset, num_calls]
    threads,    \* per thread inside send_updates_to_single_request: [pc, rid, wake]
    pass,       \* the scheduler's dispatch-all pass: [running, snapshot, i, log, crashed]
    queries,    \* start times of the latest two external queries: [prev, last]
    lock,       \* RequestList._lock: "free" or the thread holding it
    callers,    \* threads calling RequestList.add in the concurrent harness
    probe,      \* the latest call of a function of the bots on its own: [fn, input, output]
    logged,     \* what the latest handler or dispatch gave to logger.exception
    conversation_memory,  \* Kita.conversation_memory: per conversation key its deque of turns
    token_usage \* Kita.token_usage: per sender id the tokens counted so far

vars == <<phase, requests, file, nextUuid, sent, loads, writes, now, limiter,
          threads, pass, queries, lock, callers, probe, logged,
          conversation_memory, token_usage>>

-----------------------------------------------------------------------------
(* Bounds of the model. *)

\* uuid4 values that may be handed out to newly stored requests
MaxUuid == 1
\* the clock stops advancing here
MaxTime == 6
\* participants of a private thread, the bot included
MaxParticipants == 3
\* results of one search (max_results)
MaxResults == 3
\* turns kept for a private thread of the kita bot
MaxSideTurns == 2

(* Program constants. *)

\* Arxiv.admin_id: int(os.getenv("ZULIP_ADMIN_ID", "0"))
AdminId == 0
\* @limits(calls=1, period=3)
Period == 3
\* @limits(calls=1, period=3)
Calls == 1
\* replace(hour=7, minute=0, second=0, microsecond=0)
TriggerHour == 7
\* deque(maxlen=10)
MemoryMaxlen == 10
\* Kita.max_tokens
MaxTokens == 1000000

-----------------------------------------------------------------------------
(* Python values *)

NoneVal == "<None>"
PyTuple(s) == [py |-> "tuple", items |-> s]
PyList(s) == [py |-> "list", items |-> s]
PyStr(s) == [py |-> "str", s |-> s]

Range(s) == {s[i] : i \in DOMAIN s}

\* str(n) for the user ids of the model
IdStr(n) ==
    CASE n = 0 -> "0"
      [] n = 5 -> "5"
      [] n = 9 -> "9"
      [] n = 10 -> "10"

\* the code points of a decimal string, as digits
Digits(s) ==
    CASE s = "0" -> <<0>>
      [] s = "5" -> <<5>>
      [] s = "9" -> <<9>>
      [] s = "10" -> <<1, 0>>

\* Python's str < str: lexicographic on code points, a proper prefix is smaller
RECURSIVE SeqLess(_, _)
SeqLess(a, b) ==
    IF b = <<>> THEN FALSE
    ELSE IF a = <<>> THEN TRUE
    ELSE IF Head(a) # Head(b) THEN Head(a) < Head(b)
    ELSE SeqLess(Tail(a), Tail(b))

StrLess(a, b) == SeqLess(Digits(a), Digits(b))

\* sorted() of a sequence of decimal strings: insertion into a sorted prefix
RECURSIVE Insert(_, _)
Insert(x, s) ==
    IF s = <<>> THEN <<x>>
    ELSE IF StrLess(x, Head(s)) THEN <<x>> \o s
    ELSE <<Head(s)>> \o Insert(x, Tail(s))

\* mutant: the ids are taken in the order of the payload
Unsorted(s) == s

RECURSIVE Sorted(_)
Sorted(s) == IF s = <<>> THEN <<>> ELSE Insert(Head(s), Sorted(Tail(s)))

\* mutant: only the first token is kept
JoinFirst(tokens) == IF tokens = <<>> THEN "" ELSE tokens[1]

\* " ".join(tokens)
RECURSIVE Join(_)
Join(tokens) ==
    IF tokens = <<>> THEN ""
    ELSE IF Len(tokens) = 1 THEN tokens[1]
    ELSE tokens[1] \o " " \o Join(Tail(tokens))

-----------------------------------------------------------------------------
(* bots/message.py *)

\* Message(type=..., subject=..., to=...)
Message(type, subject, to) == [type |-> type, subject |-> subject, to |-> to]

\* Message.to_dict: asdict(self)
MessageToDict(m) == [type |-> m.type, subject |-> m.subject, to |-> m.to]

\* data.get("subject")
GetSubject(data) == IF "subject" \in DOMAIN data THEN data.subject ELSE NoneVal

\* Message.from_dict raises KeyError unless data has "type" and "to"
MessageFromDictRaises(data) == ~({"type", "to"} \subseteq DOMAIN data)

\* Message.from_dict
MessageFromDict(data) == Message(data.type, GetSubject(data), data.to)

\* the emails of display_recipient other than the bot's, in payload order
RECURSIVE OtherEmails(_, _)
OtherEmails(users, botEmail) ==
    IF users = <<>> THEN <<>>
    ELSE (IF Head(users).email # botEmail THEN <<Head(users).email>> ELSE <<>>)
         \o OtherEmails(Tail(users), botEmail)

\* Message.from_zulip_message
FromZulipMessage(message, botEmail) ==
    IF message.type = "private"
    THEN LET others == OtherEmails(message.display_recipient, botEmail)
             to == IF message.sender_email \in Range(others)
                   THEN others
                   ELSE Append(others, message.sender_email)
         IN  Message("private", NoneVal, PyList(to))
    ELSE Message(message.type, message.subject, message.display_recipient)

-----------------------------------------------------------------------------
(* bots/arxiv/requests.py: Request *)

Request(id, uuid, query, owner, message) ==
    [id |-> id, uuid |-> uuid, query |-> query, owner_id |-> owner, message |-> message]

\* json.dump writes a tuple as an array, which json.load reads back as a list
JsonArray(v) == PyList(v.items)

\* Request.to_dict, as json.dump stores it
ToDict(r) ==
    [id |-> JsonArray(r.id), uuid |-> r.uuid, query |-> r.query,
     owner_id |-> r.owner_id, message |-> MessageToDict(r.message)]

\* a JSON null where a value is expected
JsonNull == [py |-> "null"]

\* tuple(data["id"]) raises TypeError when data["id"] is not iterable (null)
TupleRaises(v) == v.py # "list"

\* mutant: from_dict keeps the list json.load gave
ToTupleKeepsList(v) == v

\* tuple(data["id"])
ToTuple(v) == PyTuple(v.items)

\* a JSON object is modelled as a function on its keys, anything else as a tagged value
IsObject(data) == DOMAIN data \subseteq {"id", "uuid", "query", "owner_id", "message"}
                  /\ "py" \notin DOMAIN data

\* mutant: from_dict gives the request a uuid of its own
FromDictNewUuid(data) ==
    Request(ToTuple(data.id), "new", data.query, data.owner_id,
            MessageFromDict(data.message))

\* Request.from_dict; load_from_file reads data["uuid"] before it calls this
FromDict(data) ==
    Request(ToTuple(data.id), data.uuid, data.query, data.owner_id,
            MessageFromDict(data.message))

\* mutant: requests are equal only when their queries are equal too
RequestEqWithQuery(a, b) == a.id = b.id /\ a.query = b.query

\* Request.__eq__: self.id == other.id
RequestEq(a, b) == a.id = b.id

-----------------------------------------------------------------------------
(* bots/arxiv/requests.py: RequestList, each operation under self._lock *)

\* mutant: the keys, the newest first
IdsNewestFirst(reqs) == [i \in DOMAIN reqs |-> reqs[Len(reqs) + 1 - i].uuid]

\* list(self.requests.keys())
Ids(reqs) == [i \in DOMAIN reqs |-> reqs[i].uuid]

\* id in self.requests
Contains(reqs, id) == \E i \in DOMAIN reqs : reqs[i].uuid = id

\* self.requests.get(id), where it is not None
Get(reqs, id) == reqs[CHOOSE i \in DOMAIN reqs : reqs[i].uuid = id]

\* self.requests[key] = value: an existing key keeps its place in the order
DictSet(reqs, r) ==
    IF \E i \in DOMAIN reqs : reqs[i].uuid = r.uuid
    THEN [i \in DOMAIN reqs |-> IF reqs[i].uuid = r.uuid THEN r ELSE reqs[i]]
    ELSE Append(reqs, r)

\* any(r == request for r in self.requests.values())
AlreadyPresent(reqs, r) == \E i \in DOMAIN reqs : RequestEq(reqs[i], r)

\* RequestList.add: [ok, requests]
Add(reqs, r) ==
    IF AlreadyPresent(reqs, r)
    THEN [ok |-> FALSE, requests |-> reqs]
    ELSE [ok |-> TRUE, requests |-> DictSet(reqs, r)]

\* mutant: del leaves the dict as it is
DictDelNothing(reqs, id) == reqs

\* mutant: del removes the oldest entry
DictDelOldest(reqs, id) == Tail(reqs)

\* del self.requests[id]
RECURSIVE DictDel(_, _)
DictDel(reqs, id) ==
    IF reqs = <<>> THEN <<>>
    ELSE IF Head(reqs).uuid = id THEN Tail(reqs)
    ELSE <<Head(reqs)>> \o DictDel(Tail(reqs), id)

\* RequestList.remove: [ok, requests]
Remove(reqs, id) ==
    IF ~Contains(reqs, id)
    THEN [ok |-> FALSE, requests |-> reqs]
    ELSE [ok |-> TRUE, requests |-> DictDel(reqs, id)]

-----------------------------------------------------------------------------
(* The snapshot file.  Its content is one of                              *)
(*   [kind |-> "missing"]      no file at the path                         *)
(*   [kind |-> "unreadable"]   open("r") raises OSError                    *)
(*   [kind |-> "invalid"]      json.load raises JSONDecodeError            *)
(*   [kind |-> "json", raw |-> v]  a JSON document: PyList of records, or  *)
(*                             a value that is no array                    *)

FileMissing == [kind |-> "missing"]
FileUnreadable == [kind |-> "unreadable"]
FileInvalid == [kind |-> "invalid"]
FileJson(raw) == [kind |-> "json", raw |-> raw]

\* a JSON number: iterating it raises TypeError
JsonNumber == [py |-> "int"]

\* the exception {data["uuid"]: Request.from_dict(data) for data in raw} raises
\* at one record, "" when it raises none: a record that is no object cannot be
\* indexed by "uuid" (TypeError), a missing key is a KeyError, tuple(null) a TypeError
RecordError(data) ==
    IF ~IsObject(data) THEN "TypeError"
    ELSE IF "uuid" \notin DOMAIN data THEN "KeyError"
    ELSE IF ~({"id", "query", "owner_id", "message"} \subseteq DOMAIN data) THEN "KeyError"
    ELSE IF TupleRaises(data.id) THEN "TypeError"
    ELSE IF MessageFromDictRaises(data.message) THEN "KeyError"
    ELSE ""

RECURSIVE FirstError(_)
FirstError(items) ==
    IF items = <<>> THEN ""
    ELSE IF RecordError(Head(items)) # "" THEN RecordError(Head(items))
    ELSE FirstError(Tail(items))

\* the exception raised inside the try block of load_from_file, "" when none
LoadError(f) ==
    IF f.kind = "unreadable" THEN "OSError"
    ELSE IF f.kind = "invalid" THEN "JSONDecodeError"
    ELSE IF f.raw.py # "list" THEN "TypeError"
    ELSE FirstError(f.raw.items)

\* the classes of the exceptions the try block can raise; each is an Exception
ExceptionClasses == {"OSError", "JSONDecodeError", "KeyError", "TypeError"}

\* mutant: load_from_file without its except Exception clause
HandledOnlyIO(err) == err \in {"OSError", "JSONDecodeError"}

\* except (OSError, json.JSONDecodeError) and except Exception (requests.py:92-97)
Handled(err) == err \in {"OSError", "JSONDecodeError"} \/ err \in ExceptionClasses

\* the dict built by the comprehension, record by record
RECURSIVE Comprehension(_, _)
Comprehension(items, acc) ==
    IF items = <<>> THEN acc
    ELSE Comprehension(Tail(items), DictSet(acc, FromDict(Head(items))))

\* RequestList.load_from_file: [raised, requests]
LoadFromFile(f) ==
    IF f.kind = "missing" THEN [raised |-> FALSE, requests |-> <<>>]
    ELSE IF LoadError(f) = ""
    THEN [raised |-> FALSE, requests |-> Comprehension(f.raw.items, <<>>)]
    ELSE [raised |-> ~Handled(LoadError(f)), requests |-> <<>>]

\* json.dump([r.to_dict() for r in self.requests.values()], f, indent=2)
Dump(reqs) == FileJson(PyList([i \in DOMAIN reqs |-> ToDict(reqs[i])]))

\* what save_to_file may do to the file
WriteOutcomes == {"ok", "open_failed", "dump_failed"}
FailedWrites == {"open_failed", "dump_failed"}

\* the records of logger.exception
LogLoad == "Error loading request file."
LogSave == "Error saving request file"
LogHandleEvent == "Exception in handle_event"
LogDispatch == "arXiv fetch/send failed"

\* RequestList.save_to_file: the file after an attempt with outcome w; open("w")
\* truncates, so a dump that fails midway leaves a document that does not parse
SaveToFile(reqs, f, w) ==
    CASE w = "ok" -> Dump(reqs)
      [] w = "open_failed" -> f
      [] w = "dump_failed" -> FileInvalid

\* mutant: save_to_file without its except clause
SaveCaughtNothing(w) == FALSE

\* except Exception around open("w") and json.dump (requests.py:105)
SaveCaught(w) == TRUE

\* the exception of a failed write leaves save_to_file
SaveRaises(w) == w # "ok" /\ ~SaveCaught(w)

-----------------------------------------------------------------------------
(* Inbound events *)

\* client_zulip.email
BotEmail == "arxiv-bot@z"

\* user 5 is the bot's own account
Email(n) == IF n = 5 THEN BotEmail ELSE "u" \o IdStr(n) \o "@z"
User(n) == [id |-> n, email |-> Email(n)]
BotUser == User(5)

Senders == {AdminId, 9, 10}

\* the conversations of the model: a stream topic, a private thread with its
\* participants in two orders, and a message of a type Zulip does not document
StreamMl == [type |-> "stream", display_recipient |-> PyStr("research"), subject |-> "ml"]
PmA == [type |-> "private", display_recipient |-> <<User(9), User(10), BotUser>>,
        subject |-> ""]
PmB == [type |-> "private", display_recipient |-> <<User(10), BotUser, User(9)>>,
        subject |-> ""]
Other == [type |-> "other", display_recipient |-> PyStr("research"), subject |-> "ml"]
Envelopes == {StreamMl, PmA}

Uuid(k) == "u" \o ToString(k)
FileUuids == {"f1", "f2", "f3"}
QueryIds == FileUuids \cup {Uuid(k) : k \in 1..MaxUuid} \cup {"zz"}

\* message["content"]: the text it starts with (a mention of the bot followed by
\* a blank, a mention of somebody else, a mention of the bot that no blank
\* follows, or no mention), and the words that follow, separated by blanks
Content(mention, tokens) == [mention |-> mention, tokens |-> tokens]
Mention == "@**arxiv** "
MentionOfOther == "@**alice** "
MentionAlone == "@**arxiv**"
MentionKita == "@**kita** "
SetTokens == {<<"set", "cat:cs.LG", "AND", "all:GAN">>, <<"set", "all:GAN">>}
RouterTokens ==
    SetTokens \cup {<<"list">>, <<"list", "all">>, <<"--help">>}
    \cup {<<"rm", id>> : id \in QueryIds}

ZulipMessage(env, sender, content) ==
    [type |-> env.type, display_recipient |-> env.display_recipient,
     subject |-> env.subject, sender_id |-> sender, sender_email |-> Email(sender),
     content |-> content]

\* a private message comes from one of its participants
MessagesWith(tokens) ==
    {ZulipMessage(env, s, c) :
        env \in Envelopes, s \in Senders \cup {BotUser.id},
        c \in {Content(Mention, t) : t \in tokens} \cup {Content("", <<"hello">>)}}

WellAddressed(m) ==
    m.type = "private" =>
        \E i \in DOMAIN m.display_recipient : m.display_recipient[i].id = m.sender_id

\* messages that are no well-formed command of a user in a stream or a private
\* thread: a word with an unbalanced quote, an option the usage does not have, a
\* command without its argument, a mention that is not the bot's or has nothing
\* after it, a type that is neither stream nor private, the participants of PmA
\* in another order
OddMessages ==
    { ZulipMessage(StreamMl, 9, Content(Mention, <<"set", "it's">>)),
      ZulipMessage(StreamMl, 9, Content(Mention, <<"set", "it's", "--help">>)),
      ZulipMessage(StreamMl, 9, Content(Mention, <<"list", "--all">>)),
      ZulipMessage(StreamMl, 9, Content(Mention, <<"rm">>)),
      ZulipMessage(StreamMl, 9, Content(Mention, <<"set", "all:GAN", "-h">>)),
      ZulipMessage(StreamMl, 9, Content(Mention, <<>>)),
      ZulipMessage(StreamMl, 9, Content(MentionOfOther, <<"list">>)),
      ZulipMessage(StreamMl, 9, Content(MentionAlone, <<>>)),
      ZulipMessage(Other, 9, Content(Mention, <<"set", "all:GAN">>)),
      ZulipMessage(Other, 9, Content(Mention, <<"list">>)),
      ZulipMessage(PmB, 10, Content(Mention, <<"set", "all:GAN">>)) }

RouterMessages == {m \in MessagesWith(RouterTokens) : WellAddressed(m)} \cup OddMessages

-----------------------------------------------------------------------------
(* bots/parser.py *)

ParsedNone == [kind |-> "none"]
ParsedHelp == [kind |-> "help"]
\* {"<prompt>": [prompt]}
ParsedPrompt(prompt) == [kind |-> "prompt", prompt |-> <<prompt>>]
ParsedArgs(cmd, all, query, query_id) ==
    [kind |-> "args", cmd |-> cmd, all |-> all, query |-> query, query_id |-> query_id]

\* the words of the model that start with a dash
IsOption(token) == token \in {"--help", "-h", "--all"}

\* docopt(doc, argv) against the usage of Arxiv.doc; SystemExit gives the help
\* dict.  The usage has no option but --help, and docopt exits on any other.
Docopt(argv) ==
    IF argv = <<>> THEN ParsedHelp
    ELSE IF \E i \in DOMAIN argv : IsOption(argv[i]) THEN ParsedHelp
    ELSE IF argv[1] = "set" /\ Len(argv) >= 2
         THEN ParsedArgs("set", FALSE, Tail(argv), "")
    ELSE IF argv = <<"list">> THEN ParsedArgs("list", FALSE, <<>>, "")
    ELSE IF argv = <<"list", "all">> THEN ParsedArgs("list", TRUE, <<>>, "")
    ELSE IF argv[1] = "rm" /\ Len(argv) = 2 THEN ParsedArgs("rm", FALSE, <<>>, argv[2])
    ELSE IF argv[1] = "force" /\ Len(argv) = 2
         THEN ParsedArgs("force", FALSE, <<>>, argv[2])
    ELSE ParsedHelp

\* re.match(r"@[*]{2}\w+[*]{2}\s+(.*)", message): a mention of any name at the
\* start of the text, followed by at least one blank
MentionMatch(mention) == mention \in {Mention, MentionOfOther, MentionKita}

\* the number of quote characters in a word of the model
Quotes(word) == IF word = "it's" THEN 1 ELSE 0

\* shlex.split raises ValueError ("No closing quotation") when a quote stays open
RECURSIVE OpenQuotes(_)
OpenQuotes(words) ==
    IF words = <<>> THEN 0 ELSE (Quotes(Head(words)) + OpenQuotes(Tail(words))) % 2

ShlexRaises(words) == OpenQuotes(words) # 0

\* parse_zulip_message
ParseZulipMessage(content) ==
    IF ~MentionMatch(content.mention) THEN ParsedNone
    ELSE IF ShlexRaises(content.tokens) THEN ParsedPrompt(Join(content.tokens))
    ELSE IF \E i \in DOMAIN content.tokens : content.tokens[i] \in {"--help", "-h"}
         THEN ParsedHelp
    ELSE Docopt(content.tokens)

-----------------------------------------------------------------------------
(* bots/arxiv/arxiv.py: the command router *)

\* Message.send: the payload handed to client.send_message
Send(m, text) == [type |-> m.type, to |-> m.to, subject |-> m.subject, content |-> text]

TextAdded(uuid) == "Search topic added! ID: " \o uuid
TextExists == "This search topic already exists."
TextNoSuchId == "No such request ID."
TextDenied == "You don't have permission to remove this topic."
TextRemoved == "Search topic removed!"
TextNotFound(id) == "Request ID " \o id \o " not found."
TextMalformed == "Unknown or malformed command. Use --help for usage."
TextUnknown == "Unknown command. Use --help for help."
TextHelp == "usage"
TextNoResults == "No new results found."

\* mutant: a message of any other type is taken for a stream message
RequestIdNeverRaises(message) == FALSE

\* get_request_id_from_zulip_message raises ValueError for any other type
RequestIdRaises(message) == message.type \notin {"private", "stream"}

RECURSIVE UserIdStrs(_)
UserIdStrs(users) ==
    IF users = <<>> THEN <<>> ELSE <<IdStr(Head(users).id)>> \o UserIdStrs(Tail(users))

\* get_request_id_from_zulip_message
GetRequestId(message) ==
    IF message.type = "private"
    THEN PyTuple(Sorted(UserIdStrs(message.display_recipient)))
    ELSE PyTuple(<<message.display_recipient.s, message.subject>>)

\* What a handler did: the registry and the file it leaves, the payloads it sent,
\* the outcome of its save_to_file ("none": no save), and the request id it
\* entered send_updates_to_single_request with ("": none).  st is the state it
\* started in: [requests, file, nextUuid].
Outcome(reqs, f, n, out, w, rid) ==
    [requests |-> reqs, file |-> f, nextUuid |-> n, sent |-> out, writes |-> w,
     dispatch |-> rid]

Nothing(st, out) == Outcome(st.requests, st.file, st.nextUuid, out, "none", "")

\* Arxiv._set_command; w is what the file system does to the write.  An exception
\* that leaves save_to_file leaves the command before its reply.
SetCommand(st, query, message, reply, sender_id, w) ==
    IF RequestIdRaises(message) THEN Nothing(st, <<>>)
    ELSE LET new == Request(GetRequestId(message), Uuid(st.nextUuid + 1), query,
                            sender_id, reply)
             res == Add(st.requests, new)
         IN  IF res.ok
             THEN Outcome(res.requests, SaveToFile(res.requests, st.file, w),
                          st.nextUuid + 1,
                          IF SaveRaises(w) THEN <<>>
                          ELSE <<Send(reply, TextAdded(new.uuid))>>, w, "")
             ELSE Nothing(st, <<Send(reply, TextExists)>>)

\* mutant: _rm_command without the permission check
RmCommandNoAuth(st, request_id, reply, sender_id, w) ==
    IF ~Contains(st.requests, request_id)
    THEN Nothing(st, <<Send(reply, TextNoSuchId)>>)
    ELSE LET res == Remove(st.requests, request_id)
         IN  Outcome(res.requests, SaveToFile(res.requests, st.file, w), st.nextUuid,
                     <<Send(reply, TextRemoved)>>, w, "")

\* mutant: _rm_command without save_to_file
RmCommandNoSave(st, request_id, reply, sender_id, w) ==
    IF ~Contains(st.requests, request_id)
    THEN Nothing(st, <<Send(reply, TextNoSuchId)>>)
    ELSE IF sender_id \notin {Get(st.requests, request_id).owner_id, AdminId}
    THEN Nothing(st, <<Send(reply, TextDenied)>>)
    ELSE LET res == Remove(st.requests, request_id)
         IN  Outcome(res.requests, st.file, st.nextUuid,
                     <<Send(reply, TextRemoved)>>, "none", "")

\* Arxiv._rm_command
RmCommand(st, request_id, reply, sender_id, w) ==
    IF ~Contains(st.requests, request_id)
    THEN Nothing(st, <<Send(reply, TextNoSuchId)>>)
    ELSE IF sender_id \notin {Get(st.requests, request_id).owner_id, AdminId}
    THEN Nothing(st, <<Send(reply, TextDenied)>>)
    ELSE LET res == Remove(st.requests, request_id)
         IN  Outcome(res.requests, SaveToFile(res.requests, st.file, w), st.nextUuid,
                     IF SaveRaises(w) THEN <<>> ELSE <<Send(reply, TextRemoved)>>, w, "")

\* the lines _list_command adds for the requests it shows
RECURSIVE ListLines(_, _, _)
ListLines(reqs, show_all, sender_id) ==
    IF reqs = <<>> THEN ""
    ELSE (IF show_all \/ Head(reqs).owner_id = sender_id
          THEN "- [" \o Head(reqs).uuid \o "] (owner: " \o IdStr(Head(reqs).owner_id)
               \o ") query: " \o Head(reqs).query \o ";"
          ELSE "")
         \o ListLines(Tail(reqs), show_all, sender_id)

\* handle_event's argument for _list_command: cmd_args["all"] if cmd_args["all"] else ""
ListScope(all) == IF all THEN [py |-> "bool", b |-> TRUE] ELSE PyStr("")

\* Arxiv._list_command
ListCommand(st, scope, reply, sender_id) ==
    LET show_all == scope = PyStr("all")
        head == IF show_all THEN "All search topics: " ELSE "Your search topics: "
        lines == ListLines(st.requests, show_all, sender_id)
        msg == head \o (IF lines = "" THEN "None." ELSE lines)
    IN  Nothing(st, <<Send(reply, msg)>>)

\* mutant: _force_command without the lookup
ForceCommandNoLookup(st, request_id, reply) ==
    Outcome(st.requests, st.file, st.nextUuid, <<>>, "none", request_id)

\* Arxiv._force_command: the call of send_updates_to_single_request is the dispatch
ForceCommand(st, request_id, reply) ==
    IF ~Contains(st.requests, request_id)
    THEN Nothing(st, <<Send(reply, TextNotFound(request_id))>>)
    ELSE Outcome(st.requests, st.file, st.nextUuid, <<>>, "none", request_id)

\* mutant: handle_event without the test of the sender
SelfAuthoredNever(message) == FALSE

\* message["sender_email"] == self.client_zulip.email
SelfAuthored(message) == message.sender_email = BotEmail

\* the exception raised inside the try block of handle_event, "" when none: the
\* ValueError of get_request_id_from_zulip_message, reached by a set command
EventError(message) ==
    IF SelfAuthored(message) THEN ""
    ELSE LET args == ParseZulipMessage(message.content)
         IN  IF args.kind = "args" /\ args.cmd = "set" /\ RequestIdRaises(message)
             THEN "ValueError"
             ELSE ""

\* mutant: handle_event without its except clause
EventCaughtNothing(err) == FALSE

\* except Exception at the end of handle_event (arxiv.py:288)
EventCaught(err) == TRUE

\* what handle_event gives to logger.exception, itself or through save_to_file
HandleEventLog(message, o) ==
    IF EventError(message) # "" THEN <<LogHandleEvent>>
    ELSE IF o.writes \in FailedWrites THEN <<LogSave>>
    ELSE <<>>

\* Arxiv.handle_event for an event of type "message"
HandleEventOutcome(st, message, w) ==
    LET reply == FromZulipMessage(message, BotEmail)
        args == ParseZulipMessage(message.content)
    IN  IF SelfAuthored(message) THEN Nothing(st, <<>>)
        ELSE IF args.kind = "none" THEN Nothing(st, <<Send(reply, TextMalformed)>>)
        ELSE IF args.kind = "help" THEN Nothing(st, <<Send(reply, TextHelp)>>)
        ELSE IF args.kind = "args" /\ args.cmd = "set"
             THEN SetCommand(st, Join(args.query), message, reply, message.sender_id, w)
        ELSE IF args.kind = "args" /\ args.cmd = "rm"
             THEN RmCommand(st, args.query_id, reply, message.sender_id, w)
        ELSE IF args.kind = "args" /\ args.cmd = "list"
             THEN ListCommand(st, ListScope(args.all), reply, message.sender_id)
        ELSE IF args.kind = "args" /\ args.cmd = "force"
             THEN ForceCommand(st, args.query_id, reply)
        ELSE Nothing(st, <<Send(reply, TextUnknown)>>)

-----------------------------------------------------------------------------
(* bots/arxiv/arxiv.py: the rate limiter and the dispatcher *)

Threads == {"ev", "sched"}
NoProbe == [fn |-> "none"]
Idle == [pc |-> "idle"]
NoPass == [state |-> "none", snapshot |-> <<>>, i |-> 0, log |-> <<>>]

\* RateLimitDecorator: a fixed window that opens at last_reset and lasts Period
PeriodRemaining(lim, clock) == Period - (clock - lim.last_reset)

\* mutant: the decorator never opens a new window, every call finds it full
LimiterAlwaysFull(lim, clock) == [lim EXCEPT !.num_calls = Calls + 1]

\* the decorator's bookkeeping for one call at time clock
LimiterCall(lim, clock) ==
    LET window == IF PeriodRemaining(lim, clock) <= 0
                  THEN [last_reset |-> clock, num_calls |-> 0]
                  ELSE lim
    IN  [window EXCEPT !.num_calls = @ + 1]

\* the call is let through unless the window already holds Calls calls
Admitted(lim) == lim.num_calls <= Calls

\* mutant: send_updates_to_single_request without its try/except
CaughtNothing(result) == FALSE

\* except Exception around the query and the delivery (arxiv.py:128)
Caught(result) == TRUE

DispatchResults == {"ok", "query_failed", "send_failed"}

\* a result of the search; times are whole hours counted from a midnight (UTC)
Result(title, entry_id, published) ==
    [title |-> title, entry_id |-> entry_id, published |-> published]

\* (now - timedelta(days=1)).replace(hour=7, minute=0, second=0, microsecond=0)
Yesterday7am(clock) == ((clock \div 24) - 1) * 24 + TriggerHour

\* mutant: a result published at the threshold counts as new
TextLinesInclusive(results, threshold) ==
    [k \in 1..Cardinality({i \in DOMAIN results : results[i].published >= threshold}) |->
        "- [" \o results[k].title \o "](" \o results[k].entry_id \o ")"]

\* the for loop over search.results(): a line for each result until the first
\* that is not newer than the threshold
RECURSIVE TextLines(_, _)
TextLines(results, threshold) ==
    IF results = <<>> THEN <<>>
    ELSE IF Head(results).published > threshold
    THEN <<"- [" \o Head(results).title \o "](" \o Head(results).entry_id \o ")">>
         \o TextLines(Tail(results), threshold)
    ELSE <<>>

\* "\n".join(text_lines) if text_lines else "No new results found."
RECURSIVE ResultText(_)
ResultText(text_lines) ==
    IF text_lines = <<>> THEN TextNoResults
    ELSE IF Len(text_lines) = 1 THEN text_lines[1]
    ELSE text_lines[1] \o "\n" \o ResultText(Tail(text_lines))

\* the try block of send_updates_to_single_request when nothing raises: the
\* payloads handed to client.send_message
Deliveries(request, results, clock) ==
    <<Send(request.message, ResultText(TextLines(results, Yesterday7am(clock))))>>

\* the text of a delivery: the lines of the new results, or the fallback
ResultTexts ==
    {ResultText(TextLines(results, 24 + TriggerHour)) :
        results \in {<<>>, <<Result("title", "entry", 2 * 24)>>}}

\* the scheduler's loop after the dispatch of snapshot[i] returned with result
PassAfter(p, id, result) ==
    LET log == Append(p.log, [id |-> id, result |-> result])
    IN  IF result # "ok" /\ result # "missing" /\ ~Caught(result)
        THEN [p EXCEPT !.state = "crashed", !.log = log]
        ELSE IF p.i = Len(p.snapshot)
        THEN [p EXCEPT !.state = "done", !.log = log]
        ELSE [p EXCEPT !.i = @ + 1, !.log = log]

\* the thread after its dispatch returned: the event loop waits for the next
\* event, the scheduler takes the next id of its snapshot
ThreadAfter(t, p) ==
    IF t = "sched" /\ p.state = "running"
    THEN [pc |-> "limit", rid |-> p.snapshot[p.i]]
    ELSE Idle

-----------------------------------------------------------------------------
(* Actions *)

State == [requests |-> requests, file |-> file, nextUuid |-> nextUuid]

\* Arxiv.__init__: RequestList.load_from_file(self.db_file)
Startup ==
    /\ phase = "init"
    /\ \E loaded \in {LoadFromFile(file)} :
        /\ phase' = IF loaded.raised THEN "crashed" ELSE "running"
        /\ requests' = loaded.requests
    /\ loads' = loads + 1
    /\ logged' = IF file.kind # "missing" /\ LoadError(file) # "" THEN <<LogLoad>> ELSE <<>>
    /\ UNCHANGED <<conversation_memory, token_usage, probe, file, nextUuid, sent, writes, now, limiter, threads, pass, queries,
                   lock, callers>>

\* Arxiv.handle_event on the event loop's thread, for a message of msgs; when the
\* handler saves the snapshot, the file system treats the write as one of ws says
HandleEvent(msgs, ws) ==
    /\ phase = "running"
    /\ threads["ev"].pc = "idle"
    /\ \E m \in msgs :
        \E o \in {HandleEventOutcome(State, m, w) : w \in ws} :
            /\ o.nextUuid <= MaxUuid
            /\ requests' = o.requests
            /\ file' = o.file
            /\ nextUuid' = o.nextUuid
            /\ sent' = o.sent
            /\ writes' = o.writes
            /\ threads' = IF o.dispatch = "" THEN threads
                          ELSE [threads EXCEPT !["ev"] = [pc |-> "limit", rid |-> o.dispatch]]
            /\ logged' = HandleEventLog(m, o)
            /\ phase' = IF EventError(m) # "" /\ ~EventCaught(EventError(m))
                         THEN "crashed" ELSE phase
    /\ UNCHANGED <<conversation_memory, token_usage, probe, loads, now, limiter, pass, queries, lock, callers>>

\* Arxiv.exit_handler, run by atexit
Shutdown ==
    /\ phase = "running"
    /\ phase' = "stopped"
    /\ \E w \in WriteOutcomes :
        /\ file' = SaveToFile(requests, file, w)
        /\ writes' = w
        /\ logged' = IF w \in FailedWrites THEN <<LogSave>> ELSE <<>>
    /\ sent' = <<>>
    /\ UNCHANGED <<conversation_memory, token_usage, probe, requests, nextUuid, loads, now, limiter, threads, pass, queries,
                   lock, callers>>

\* the cron trigger: send_updates_to_all_requests takes self.requests.ids()
StartPass ==
    /\ phase = "running"
    /\ threads["sched"].pc = "idle"
    /\ LET ids == Ids(requests)
           p == [state |-> IF ids = <<>> THEN "done" ELSE "running",
                 snapshot |-> ids, i |-> 1, log |-> <<>>]
       IN  /\ pass' = p
           /\ threads' = [threads EXCEPT !["sched"] = ThreadAfter("sched", p)]
    /\ UNCHANGED <<conversation_memory, token_usage, logged, probe, phase, requests, file, nextUuid, sent, loads, writes, now, limiter,
                   queries, lock, callers>>

\* a thread calls send_updates_to_single_request: the decorator counts the call;
\* a call over the limit raises RateLimitException and sleep_and_retry sleeps for
\* the rest of the window; an admitted call looks the request up and starts the query
Enter(t) ==
    /\ phase = "running"
    /\ threads[t].pc = "limit"
    /\ LET rid == threads[t].rid
           lim == LimiterCall(limiter, now)
       IN  /\ limiter' = lim
           /\ IF ~Admitted(lim)
              THEN /\ threads' = [threads EXCEPT ![t] =
                          [pc |-> "sleep", rid |-> rid,
                           wake |-> now + PeriodRemaining(limiter, now)]]
                   /\ UNCHANGED <<pass, queries>>
              ELSE IF ~Contains(requests, rid)
              THEN LET p == IF t = "sched" THEN PassAfter(pass, rid, "missing") ELSE pass
                   IN  /\ pass' = p
                       /\ threads' = [threads EXCEPT ![t] = ThreadAfter(t, p)]
                       /\ UNCHANGED queries
              ELSE /\ threads' = [threads EXCEPT ![t] =
                          [pc |-> "query", rid |-> rid, req |-> Get(requests, rid)]]
                   /\ queries' = [prev |-> queries.last, last |-> now]
                   /\ UNCHANGED pass
    /\ UNCHANGED <<conversation_memory, token_usage, logged, probe, phase, requests, file, nextUuid, sent, loads, writes, now, lock, callers>>

\* time.sleep(exception.period_remaining) is over: the call is tried again
Wake(t) ==
    /\ phase = "running"
    /\ threads[t].pc = "sleep"
    /\ now >= threads[t].wake
    /\ threads' = [threads EXCEPT ![t] = [pc |-> "limit", rid |-> threads[t].rid]]
    /\ UNCHANGED <<conversation_memory, token_usage, logged, probe, phase, requests, file, nextUuid, sent, loads, writes, now, limiter,
                   pass, queries, lock, callers>>

\* the query and the delivery end: with the results delivered, or with an
\* exception of the search or of client.send_message
Finish(t) ==
    /\ phase = "running"
    /\ threads[t].pc = "query"
    /\ \E result \in DispatchResults, text \in ResultTexts :
        LET p == IF t = "sched" THEN PassAfter(pass, threads[t].rid, result) ELSE pass
        IN  /\ sent' = IF result = "query_failed" THEN <<>>
                       ELSE <<Send(threads[t].req.message, text)>>
            /\ pass' = p
            /\ threads' = [threads EXCEPT ![t] = ThreadAfter(t, p)]
            /\ logged' = IF result # "ok" THEN <<LogDispatch>> ELSE <<>>
    /\ UNCHANGED <<conversation_memory, token_usage, probe, phase, requests, file, nextUuid, loads, writes, now, limiter, queries,
                   lock, callers>>

\* a second passes
Tick ==
    /\ phase = "running"
    /\ now < MaxTime
    /\ now' = now + 1
    /\ UNCHANGED <<conversation_memory, token_usage, logged, probe, phase, requests, file, nextUuid, sent, loads, writes, limiter, threads,
                   pass, queries, lock, callers>>

-----------------------------------------------------------------------------
(* What the snapshot file may hold when the bot starts *)

StreamKey == PyTuple(<<"research", "ml">>)
PmKey == PyTuple(<<"10", "5", "9">>)

F1 == ToDict(Request(StreamKey, "f1", "all:GAN", 9,
                     Message("stream", "ml", PyStr("research"))))
\* another record of the conversation of F1
F2 == ToDict(Request(StreamKey, "f2", "cat:cs.LG", 10,
                     Message("stream", "ml", PyStr("research"))))
\* a record of another topic of the stream
F4 == ToDict(Request(PyTuple(<<"research", "nlp">>), "f4", "cat:cs.LG", 10,
                     Message("stream", "nlp", PyStr("research"))))
F3 == ToDict(Request(PmKey, "f3", "all:GAN", 10,
                     Message("private", NoneVal, PyList(<<Email(9), Email(10)>>))))

Without(data, key) == [k \in DOMAIN data \ {key} |-> data[k]]

\* records that load_from_file cannot convert
MalformedRecords ==
    { Without(F3, "uuid"), Without(F3, "query"), Without(F3, "message"),
      [F3 EXCEPT !.id = JsonNull], [F3 EXCEPT !.message = Without(F3.message, "to")],
      PyStr("f3") }

\* a record without "subject" is read with subject None
F3NoSubject == [F3 EXCEPT !.message = Without(F3.message, "subject")]

LoadFiles ==
    {FileMissing, FileUnreadable, FileInvalid, FileJson(JsonNumber),
     FileJson(PyList(<<>>)), FileJson(PyList(<<F1>>)), FileJson(PyList(<<F1, F2>>)),
     FileJson(PyList(<<F1, F3>>)), FileJson(PyList(<<F3NoSubject>>)),
     FileJson(PyList(<<F1, [F4 EXCEPT !.uuid = "f1"]>>))}
    \cup {FileJson(PyList(<<F1, bad>>)) : bad \in MalformedRecords}
    \cup {FileJson(PyList(<<bad, F1>>)) : bad \in MalformedRecords}

InitFiles == {FileMissing, FileJson(PyList(<<F1, F3>>))}

-----------------------------------------------------------------------------
(* The bot from its start to its exit: the registry, the file, the router *)

Init ==
    /\ phase = "init"
    /\ requests = <<>>
    /\ file \in InitFiles
    /\ nextUuid = 0
    /\ sent = <<>>
    /\ loads = 0
    /\ writes = "none"
    /\ now = 0
    /\ limiter = [last_reset |-> 0, num_calls |-> 0]
    /\ threads = [t \in Threads |-> Idle]
    /\ pass = NoPass
    /\ queries = [prev |-> -1, last |-> -1]
    /\ lock = "free"
    /\ probe = NoProbe
    /\ conversation_memory = <<>>
    /\ token_usage = <<>>
    /\ logged = <<>>
    /\ callers = <<>>

Command == HandleEvent(RouterMessages, WriteOutcomes)

Next == Startup \/ Command \/ Shutdown

Spec == Init /\ [][Next]_vars

-----------------------------------------------------------------------------
(* The start of the bot on any snapshot file, followed by a few commands *)

LoadMessages ==
    { ZulipMessage(StreamMl, 9, Content(Mention, <<"set", "all:GAN">>)),
      ZulipMessage(PmA, 10, Content(Mention, <<"set", "all:GAN">>)),
      ZulipMessage(StreamMl, AdminId, Content(Mention, <<"rm", "f1">>)),
      ZulipMessage(StreamMl, 9, Content(Mention, <<"list">>)) }

InitLoad ==
    /\ phase = "init"
    /\ requests = <<>>
    /\ file \in LoadFiles
    /\ nextUuid = 0
    /\ sent = <<>>
    /\ loads = 0
    /\ writes = "none"
    /\ now = 0
    /\ limiter = [last_reset |-> 0, num_calls |-> 0]
    /\ threads = [t \in Threads |-> Idle]
    /\ pass = NoPass
    /\ queries = [prev |-> -1, last |-> -1]
    /\ lock = "free"
    /\ probe = NoProbe
    /\ conversation_memory = <<>>
    /\ token_usage = <<>>
    /\ logged = <<>>
    /\ callers = <<>>

LoadCommand == HandleEvent(LoadMessages, {"ok"})

NextLoad == Startup \/ LoadCommand \/ Shutdown

SpecLoad == InitLoad /\ [][NextLoad]_vars

-----------------------------------------------------------------------------
(* The running bot with its scheduler: the daily pass, force commands and     *)
(* removals on the event loop, the rate limiter and the clock                 *)

DispatchMessages ==
    { ZulipMessage(StreamMl, 9, Content(Mention, <<"force", "f1">>)),
      ZulipMessage(StreamMl, 9, Content(Mention, <<"force", "zz">>)),
      ZulipMessage(StreamMl, 9, Content(Mention, <<"rm", "f1">>)),
      ZulipMessage(StreamMl, 9, Content(Mention, <<"set", "all:GAN">>)) }

InitDispatch ==
    /\ phase = "running"
    /\ file = FileJson(PyList(<<F1, F3, F4>>))
    /\ requests = LoadFromFile(file).requests
    /\ nextUuid = 0
    /\ sent = <<>>
    /\ loads = 1
    /\ writes = "none"
    /\ now = 0
    /\ limiter = [last_reset |-> 0, num_calls |-> 0]
    /\ threads = [t \in Threads |-> Idle]
    /\ pass = NoPass
    /\ queries = [prev |-> -1, last |-> -1]
    /\ lock = "free"
    /\ probe = NoProbe
    /\ conversation_memory = <<>>
    /\ token_usage = <<>>
    /\ logged = <<>>
    /\ callers = <<>>

DispatchCommand == HandleEvent(DispatchMessages, {"ok"})

NextDispatch ==
    \/ DispatchCommand
    \/ StartPass
    \/ \E t \in Threads : Enter(t) \/ Wake(t) \/ Finish(t)
    \/ Tick

SpecDispatch == InitDispatch /\ [][NextDispatch]_vars

-----------------------------------------------------------------------------
(* The running bot with its scheduler for as long as it runs.  Only the       *)
(* differences of the times matter to the limiter and to the sleeping         *)
(* threads, so once the clock shows MaxTime the recorded times are moved back *)
(* by one second instead of the clock moving on; a window that has expired    *)
(* stays expired.                                                             *)

Max(a, b) == IF a >= b THEN a ELSE b

\* the thread is about to call the decorated function: its sleep is over, or it
\* has not slept
Due(t) ==
    \/ threads[t].pc = "limit"
    \/ threads[t].pc = "sleep" /\ threads[t].wake <= now

\* a second passes; a call of the decorated function and the return of
\* time.sleep take no time that a clock of seconds shows
Elapse ==
    /\ phase = "running"
    /\ \A t \in Threads : ~Due(t)
    /\ IF now < MaxTime
       THEN /\ now' = now + 1
            /\ UNCHANGED <<limiter, threads, queries>>
       ELSE /\ now' = now
            /\ limiter' = [limiter EXCEPT !.last_reset = Max(@ - 1, now - Period)]
            /\ threads' = [t \in Threads |->
                              IF threads[t].pc = "sleep"
                              THEN [threads[t] EXCEPT !.wake = Max(@ - 1, 0)]
                              ELSE threads[t]]
            /\ queries' = [prev |-> Max(queries.prev - 1, -1),
                           last |-> Max(queries.last - 1, -1)]
    /\ UNCHANGED <<conversation_memory, token_usage, logged, probe, phase, requests, file, nextUuid, sent, loads, writes, pass,
                   lock, callers>>

\* the call of thread t is let through by the limiter
EnterAdmitted(t) == Enter(t) /\ Admitted(limiter')

\* the force and rm commands of the event loop
ForeverCommand ==
    HandleEvent({m \in DispatchMessages : m.content.tokens[1] \in {"force", "rm"}}, {"ok"})

NextForever ==
    \/ ForeverCommand
    \/ StartPass
    \/ \E t \in Threads : Enter(t) \/ Wake(t) \/ Finish(t)
    \/ Elapse

\* the clock runs, a sleep ends, the call is made, a query and its delivery
\* return; of two threads that wait for the limiter's next window, none loses
\* the race for ever
SpecForever ==
    /\ InitDispatch
    /\ [][NextForever]_vars
    /\ WF_vars(Elapse)
    /\ \A t \in Threads :
        /\ WF_vars(Wake(t))
        /\ WF_vars(Enter(t))
        /\ WF_vars(Finish(t))
        /\ ([]<>(Due(t) /\ Admitted(LimiterCall(limiter, now)))
                => []<><<EnterAdmitted(t)>>_vars)

-----------------------------------------------------------------------------
(* RequestList.add called from several threads at once.  The body of add is   *)
(* taken one statement at a time: entering "with self._lock", the any(...)    *)
(* scan, the insertion, leaving the with block.                               *)

Callers == {"a", "b", "c"}

\* the request caller c adds, for conversation key
CallerRequest(c, key) ==
    Request(key, "u-" \o c, "all:GAN", 9, Message("stream", "ml", PyStr("research")))

\* mutant: add without its lock
LockIgnored(l) == TRUE

\* with self._lock: the lock can be taken when no thread holds it
LockAvailable(l) == l = "free"

InitAdd ==
    /\ phase = "running"
    /\ requests = <<>>
    /\ file = FileMissing
    /\ nextUuid = 0
    /\ sent = <<>>
    /\ loads = 1
    /\ writes = "none"
    /\ now = 0
    /\ limiter = [last_reset |-> 0, num_calls |-> 0]
    /\ threads = [t \in Threads |-> Idle]
    /\ pass = NoPass
    /\ queries = [prev |-> -1, last |-> -1]
    /\ lock = "free"
    /\ probe = NoProbe
    /\ conversation_memory = <<>>
    /\ token_usage = <<>>
    /\ logged = <<>>
    /\ callers \in [Callers -> {[pc |-> "call", req |-> CallerRequest(c, key), result |-> "none"] :
                                c \in Callers, key \in {StreamKey, PmKey}}]
    /\ \A c \in Callers : callers[c].req.uuid = "u-" \o c

\* with self._lock:
Acquire(c) ==
    /\ callers[c].pc = "call"
    /\ LockAvailable(lock)
    /\ lock' = c
    /\ callers' = [callers EXCEPT ![c].pc = "check"]
    /\ UNCHANGED <<conversation_memory, token_usage, logged, probe, phase, requests, file, nextUuid, sent, loads, writes, now, limiter,
                   threads, pass, queries>>

\* if any(r == request for r in self.requests.values()): return False
Check(c) ==
    /\ callers[c].pc = "check"
    /\ callers' = IF AlreadyPresent(requests, callers[c].req)
                  THEN [callers EXCEPT ![c].pc = "release", ![c].result = "false"]
                  ELSE [callers EXCEPT ![c].pc = "insert"]
    /\ UNCHANGED <<conversation_memory, token_usage, logged, probe, phase, requests, file, nextUuid, sent, loads, writes, now, limiter,
                   threads, pass, queries, lock>>

\* self.requests[request.uuid] = request; return True
InsertRequest(c) ==
    /\ callers[c].pc = "insert"
    /\ requests' = DictSet(requests, callers[c].req)
    /\ callers' = [callers EXCEPT ![c].pc = "release", ![c].result = "true"]
    /\ UNCHANGED <<conversation_memory, token_usage, logged, probe, phase, file, nextUuid, sent, loads, writes, now, limiter, threads,
                   pass, queries, lock>>

\* the with block is left
Release(c) ==
    /\ callers[c].pc = "release"
    /\ lock' = "free"
    /\ callers' = [callers EXCEPT ![c].pc = "done"]
    /\ UNCHANGED <<conversation_memory, token_usage, logged, probe, phase, requests, file, nextUuid, sent, loads, writes, now, limiter,
                   threads, pass, queries>>

NextAdd == \E c \in Callers : Acquire(c) \/ Check(c) \/ InsertRequest(c) \/ Release(c)

SpecAdd == InitAdd /\ [][NextAdd]_vars

-----------------------------------------------------------------------------
(* RequestList.ids and RequestList.__iter__ called while other threads add    *)
(* and remove.  Caller "a" takes the keys or the values and goes through them *)
(* one by one, caller "b" adds a request, caller "c" removes one.             *)

\* mutant: the caller is handed the dict's own keys or values, not a list of them
LiveView(copy, live) == live

\* list(self.requests.keys()), list(self.requests.values()): what the caller
\* reads later is the list made at the time of the call
ListCopy(copy, live) == copy

\* the keys or the values of the dict
Items(op, reqs) == IF op = "ids" THEN Ids(reqs) ELSE reqs

InitIds ==
    /\ phase = "running"
    /\ file = FileJson(PyList(<<F1, F3>>))
    /\ requests = LoadFromFile(file).requests
    /\ nextUuid = 0
    /\ sent = <<>>
    /\ loads = 1
    /\ writes = "none"
    /\ now = 0
    /\ limiter = [last_reset |-> 0, num_calls |-> 0]
    /\ threads = [t \in Threads |-> Idle]
    /\ pass = NoPass
    /\ queries = [prev |-> -1, last |-> -1]
    /\ lock = "free"
    /\ probe = NoProbe
    /\ conversation_memory = <<>>
    /\ token_usage = <<>>
    /\ logged = <<>>
    /\ \E op \in {"ids", "iter"}, id \in {"f1", "f3", "zz"} :
        callers = [c \in Callers |->
                     CASE c = "a" -> [pc |-> "read", op |-> op, at |-> <<>>, seen |-> <<>>]
                       [] c = "b" -> [pc |-> "call", result |-> "none",
                                      req |-> CallerRequest(c, PyTuple(<<"research", "nlp">>))]
                       [] c = "c" -> [pc |-> "remove", id |-> id, result |-> "none"]]

\* with self._lock: of ids and of __iter__
ReadEnter(c) ==
    /\ callers[c].pc = "read"
    /\ LockAvailable(lock)
    /\ lock' = c
    /\ callers' = [callers EXCEPT ![c].pc = "copy"]
    /\ UNCHANGED <<conversation_memory, token_usage, logged, probe, phase, requests, file, nextUuid, sent, loads, writes, now, limiter,
                   threads, pass, queries>>

\* return list(...): the list is made and the with block is left
ReadReturn(c) ==
    /\ callers[c].pc = "copy"
    /\ lock' = "free"
    /\ callers' = [callers EXCEPT ![c].pc = "loop", ![c].at = Items(callers[c].op, requests)]
    /\ UNCHANGED <<conversation_memory, token_usage, logged, probe, phase, requests, file, nextUuid, sent, loads, writes, now, limiter,
                   threads, pass, queries>>

\* the caller's for loop takes the next item
Visit(c) ==
    /\ callers[c].pc = "loop"
    /\ LET items == ListCopy(callers[c].at, Items(callers[c].op, requests))
           k == Len(callers[c].seen) + 1
       IN  callers' = IF k \in DOMAIN items
                      THEN [callers EXCEPT ![c].seen = Append(@, items[k])]
                      ELSE [callers EXCEPT ![c].pc = "done"]
    /\ UNCHANGED <<conversation_memory, token_usage, logged, probe, phase, requests, file, nextUuid, sent, loads, writes, now, limiter,
                   threads, pass, queries, lock>>

\* with self._lock: of remove
RemoveEnter(c) ==
    /\ callers[c].pc = "remove"
    /\ LockAvailable(lock)
    /\ lock' = c
    /\ callers' = [callers EXCEPT ![c].pc = "delete"]
    /\ UNCHANGED <<conversation_memory, token_usage, logged, probe, phase, requests, file, nextUuid, sent, loads, writes, now, limiter,
                   threads, pass, queries>>

\* the body of remove
RemoveBody(c) ==
    /\ callers[c].pc = "delete"
    /\ requests' = Remove(requests, callers[c].id).requests
    /\ callers' = [callers EXCEPT ![c].pc = "release",
                                  ![c].result = IF Remove(requests, callers[c].id).ok
                                                THEN "true" ELSE "false"]
    /\ UNCHANGED <<conversation_memory, token_usage, logged, probe, phase, file, nextUuid, sent, loads, writes, now, limiter, threads,
                   pass, queries, lock>>

NextIds ==
    \E c \in Callers :
        \/ ReadEnter(c) \/ ReadReturn(c) \/ Visit(c)
        \/ Acquire(c) \/ Check(c) \/ InsertRequest(c) \/ Release(c)
        \/ RemoveEnter(c) \/ RemoveBody(c)

SpecIds == InitIds /\ [][NextIds]_vars

-----------------------------------------------------------------------------
(* bots/kita/kita.py: the conversation key of the kita bot *)

\* sorted() of a sequence of ints: insertion into a sorted prefix
RECURSIVE InsertInt(_, _)
InsertInt(x, s) ==
    IF s = <<>> THEN <<x>>
    ELSE IF x < Head(s) THEN <<x>> \o s
    ELSE <<Head(s)>> \o InsertInt(x, Tail(s))

RECURSIVE SortedInts(_)
SortedInts(s) == IF s = <<>> THEN <<>> ELSE InsertInt(Head(s), SortedInts(Tail(s)))

\* user["id"] for user in message["display_recipient"]
UserIds(users) == [i \in DOMAIN users |-> users[i].id]

\* the None that get_conversation_id returns, as a value of its own kind
PyNone == [py |-> "None"]

\* Kita.get_conversation_id
GetConversationId(message) ==
    IF message.type = "private"
    THEN PyTuple(SortedInts(UserIds(message.display_recipient)))
    ELSE IF message.type = "stream"
    THEN PyTuple(<<message.display_recipient, message.subject>>)
    ELSE PyNone

-----------------------------------------------------------------------------
(* bots/kita/kita.py: the memory of the conversations, the token counts and  *)
(* the handler of the kita bot.  conversation_memory is a defaultdict, kept   *)
(* as the sequence of its entries in insertion order; an entry holds the      *)
(* key, the type of the messages that produce the key (a tuple of ints is     *)
(* never equal to a tuple of strs, so entries of different types never        *)
(* share a key), and the deque of the turns.  token_usage is a defaultdict    *)
(* on sender ids, kept as a function on the ids it holds.                     *)

\* the options of the usage of Kita.doc other than --help
KitaOptions == {"--reset", "--tokens", "--users", "--reset-tokens", "--model"}

\* the dict docopt returns against Kita.doc: the option that is True, or none
\* and the words of <prompt>
ParsedKita(option, prompt) == [kind |-> "kita", option |-> option, prompt |-> prompt]

\* docopt(doc, argv) against the usage of Kita.doc; SystemExit gives the help dict
DocoptKita(argv) ==
    IF argv = <<>> THEN ParsedHelp
    ELSE IF Len(argv) = 1 /\ argv[1] \in KitaOptions \ {"--reset-tokens"}
         THEN ParsedKita(argv[1], <<>>)
    ELSE IF Len(argv) = 2 /\ argv[1] = "--reset-tokens"
            /\ ~(IsOption(argv[2]) \/ argv[2] \in KitaOptions)
         THEN ParsedKita("--reset-tokens", <<>>)
    ELSE IF \A i \in DOMAIN argv : ~(IsOption(argv[i]) \/ argv[i] \in KitaOptions)
         THEN ParsedKita("", argv)
    ELSE ParsedHelp

\* self.parse of the kita bot: parse_zulip_message(x, self.doc)
ParseKita(content) ==
    IF ~MentionMatch(content.mention) THEN ParsedNone
    ELSE IF ShlexRaises(content.tokens) THEN ParsedPrompt(Join(content.tokens))
    ELSE IF \E i \in DOMAIN content.tokens : content.tokens[i] \in {"--help", "-h"}
         THEN ParsedHelp
    ELSE DocoptKita(content.tokens)

TextBot == "This bot does not respond to other bots."
TextMemoryReset == "Memory reset for this conversation."
TextTokens == "Total tokens used by you"
TextUsers == "List of all users"
TextModel == "GPT model"
TextLimit == "You have reached the maximum token usage for this month."
TextApiError == "Error calling OpenAI API. Please try again later."
TextUnauthorized == "You are not authorized to use this command."
TextResetUsage == "Usage: --reset-tokens user_id"
TextNoUser == "No user with token usage found"
TextTokensReset == "Token usage reset"

\* {"role": role, "content": content}
Turn(role, content) == [role |-> role, content |-> content]

\* deque(maxlen=10).append: a full deque drops its leftmost item
DequeAppendWhenFullKeepsOld(d, x) == IF Len(d) >= MemoryMaxlen THEN d ELSE Append(d, x)
DequeAppend(d, x) ==
    IF Len(d) >= MemoryMaxlen THEN Append(Tail(d), x) ELSE Append(d, x)

\* the conversation a message belongs to: its key with the type that produced it
Conversation(message) == [type |-> message.type, key |-> GetConversationId(message)]

SameConversation(entry, conv) == entry.type = conv.type /\ entry.key = conv.key

\* the position of conv_id in conversation_memory, 0 when it is absent
MemoryIndex(memory, conv) ==
    IF \E i \in DOMAIN memory : SameConversation(memory[i], conv)
    THEN CHOOSE i \in DOMAIN memory : SameConversation(memory[i], conv)
    ELSE 0

\* list(self.conversation_memory[conv_id])
Turns(memory, conv) ==
    IF MemoryIndex(memory, conv) = 0 THEN <<>>
    ELSE memory[MemoryIndex(memory, conv)].turns

\* self.conversation_memory[conv_id] holding turns afterwards; the defaultdict
\* creates the entry on the first access
WithTurns(memory, conv, turns) ==
    IF MemoryIndex(memory, conv) = 0
    THEN Append(memory, [type |-> conv.type, key |-> conv.key, turns |-> turns])
    ELSE [memory EXCEPT ![MemoryIndex(memory, conv)].turns = turns]

\* self.token_usage[sender] read: defaultdict(int) gives 0 for a new sender
Count(usage, sender) == IF sender \in DOMAIN usage THEN usage[sender] ELSE 0

\* self.token_usage[sender] = n; reading a new sender stores its 0
WithCount(usage, sender, n) ==
    [u \in DOMAIN usage \cup {sender} |-> IF u = sender THEN n ELSE usage[u]]

\* the words of the model that str.isdigit accepts, with their int
UserIdWords == {IdStr(n) : n \in {AdminId, 5, 9, 10}}
IntOf(word) == CHOOSE n \in {AdminId, 5, 9, 10} : IdStr(n) = word

\* Kita.reset_tokens_for_user: the counts afterwards and the text returned
ResetTokensForUser(usage, sender_id, content) ==
    IF sender_id # AdminId
    THEN [token_usage |-> usage, text |-> TextUnauthorized]
    ELSE IF ~(content.mention = MentionKita /\ Len(content.tokens) >= 2
              /\ content.tokens[1] = "--reset-tokens")
    THEN [token_usage |-> usage, text |-> TextResetUsage]
    ELSE IF content.tokens[2] \notin UserIdWords
    THEN [token_usage |-> usage, text |-> TextResetUsage]
    ELSE IF IntOf(content.tokens[2]) \notin DOMAIN usage
    THEN [token_usage |-> usage, text |-> TextNoUser]
    ELSE [token_usage |-> WithCount(usage, IntOf(content.tokens[2]), 0),
          text |-> TextTokensReset]

\* what client_ai.chat.completions.create does: it raises, it returns a choice
\* without content, or it returns content, with or without a usage
CompletionRaises == [kind |-> "raises", content |-> "", has_usage |-> FALSE, total_tokens |-> 0]
CompletionEmpty == [kind |-> "ok", content |-> "", has_usage |-> TRUE, total_tokens |-> 1]
Completion(content, has_usage, total_tokens) ==
    [kind |-> "ok", content |-> content, has_usage |-> has_usage,
     total_tokens |-> total_tokens]

\* what a call of the handler leaves behind: the memory, the counts, the texts
\* sent, the completion calls made, whether an exception left the handler
KitaOutcome(memory, usage, texts, calls, raised) ==
    [conversation_memory |-> memory, token_usage |-> usage, texts |-> texts,
     completions |-> calls, raised |-> raised]

\* content[len("@**kita**"):].strip() when content.startswith("@**kita**")
PromptText(content) ==
    IF content.mention = MentionKita THEN Join(content.tokens)
    ELSE content.mention \o Join(content.tokens)

\* Kita.handle_message_to_openai
HandleMessageToOpenai(memory, usage, sender, content, conv, completion) ==
    IF Count(usage, sender) > MaxTokens
    THEN KitaOutcome(memory, WithCount(usage, sender, Count(usage, sender)),
                     <<TextLimit>>, 0, FALSE)
    ELSE
        LET read == WithCount(usage, sender, Count(usage, sender))
            asked == WithTurns(memory, conv,
                         DequeAppend(Turns(memory, conv), Turn("user", PromptText(content))))
            answered == WithTurns(asked, conv,
                            DequeAppend(Turns(asked, conv),
                                        Turn("assistant", completion.content)))
        IN  IF completion.kind = "raises" \/ completion.content = ""
            THEN KitaOutcome(asked, read, <<TextApiError>>, 1, FALSE)
            ELSE KitaOutcome(answered,
                     IF completion.has_usage
                     THEN WithCount(read, sender, Count(read, sender) + completion.total_tokens)
                     ELSE read,
                     <<completion.content>>, 1, FALSE)

\* an event of the kita bot: the message and event["sender_type"], "" when the
\* event has no such key
Event(message, sender_type) == [message |-> message, sender_type |-> sender_type]

\* Kita.handle_event
KitaHandleEventOutcome(memory, usage, event, completion) ==
    LET message == event.message
        content == message.content
        sender == message.sender_id
        conv == Conversation(message)
        cmd_args == ParseKita(content)
        same(texts) == KitaOutcome(memory, usage, texts, 0, FALSE)
    IN  IF message.sender_email = BotEmail THEN same(<<>>)
        ELSE IF event.sender_type = "" THEN KitaOutcome(memory, usage, <<>>, 0, TRUE)
        ELSE IF event.sender_type = "bot" THEN same(<<TextBot>>)
        ELSE IF cmd_args.kind = "none" THEN same(<<TextMalformed>>)
        ELSE IF cmd_args.kind = "help" THEN same(<<TextHelp>>)
        ELSE IF cmd_args.kind = "prompt"
        THEN HandleMessageToOpenai(memory, usage, sender, content, conv, completion)
        ELSE IF cmd_args.option = "--reset"
        THEN KitaOutcome(WithTurns(memory, conv, <<>>), usage, <<TextMemoryReset>>, 0, FALSE)
        ELSE IF cmd_args.option = "--tokens"
        THEN KitaOutcome(memory, WithCount(usage, sender, Count(usage, sender)),
                         <<TextTokens>>, 0, FALSE)
        ELSE IF cmd_args.option = "--users" THEN same(<<TextUsers>>)
        ELSE IF cmd_args.option = "--reset-tokens"
        THEN LET r == ResetTokensForUser(usage, sender, content)
             IN  KitaOutcome(memory, r.token_usage, <<r.text>>, 0, FALSE)
        ELSE IF cmd_args.option = "--model" THEN same(<<TextModel>>)
        ELSE HandleMessageToOpenai(memory, usage, sender, content, conv, completion)

\* Kita.handle_event on the event loop's thread, for an event of events and a
\* completion service that behaves as one of completions says
KitaHandleEvent(events, completions) ==
    /\ phase = "running"
    /\ \E e \in events :
        \E o \in {KitaHandleEventOutcome(conversation_memory, token_usage, e, c) :
                    c \in completions} :
            /\ \A i \in DOMAIN o.conversation_memory :
                o.conversation_memory[i].type = "private" =>
                    Len(o.conversation_memory[i].turns) <= MaxSideTurns
            /\ conversation_memory' = o.conversation_memory
            /\ token_usage' = o.token_usage
            /\ sent' = [i \in DOMAIN o.texts |->
                           Send(FromZulipMessage(e.message, BotEmail), o.texts[i])]
            /\ logged' = IF TextApiError \in Range(o.texts)
                         THEN <<"Error calling OpenAI API">> ELSE <<>>
    /\ UNCHANGED <<probe, phase, requests, file, nextUuid, loads, writes, now, limiter, threads,
                   pass, queries, lock, callers>>

-----------------------------------------------------------------------------
(* The kita bot keeping the memory of its conversations                       *)

\* events about the memory: prompts and resets in a stream topic and in a
\* private thread, and events the handler answers without a completion
MemoryEvents ==
    {Event(ZulipMessage(StreamMl, 9, Content(MentionKita, t)), "user") :
        t \in {<<"hello">>, <<"--reset">>, <<"--help">>, <<"--model">>, <<"--users">>}}
    \cup {Event(ZulipMessage(PmA, 10, Content(MentionKita, t)), "user") :
            t \in {<<"hello">>, <<"--reset">>}}
    \cup { Event(ZulipMessage(StreamMl, 9, Content(MentionKita, <<"hello">>)), "bot"),
           Event(ZulipMessage(StreamMl, 9, Content(MentionKita, <<"hello">>)), ""),
           Event(ZulipMessage(StreamMl, 5, Content(MentionKita, <<"hello">>)), "user"),
           Event(ZulipMessage(StreamMl, 9, Content("", <<"hello">>)), "user") }

\* the completion service fails or answers, and reports no usage
MemoryCompletions == {CompletionRaises, CompletionEmpty, Completion("answer", FALSE, 0)}

\* events about the counts: prompts of two users, their own counts, and resets
\* asked by the administrator and by others, of a user with a count, of an
\* account without one, and of a word that is no number
QuotaEvents ==
    {Event(ZulipMessage(StreamMl, s, Content(MentionKita, t)), "user") :
        s \in {AdminId, 9, 10},
        t \in {<<"--tokens">>, <<"--reset-tokens", "9">>, <<"--reset-tokens", "5">>,
               <<"--reset-tokens", "abc">>, <<"--reset-tokens">>}}
    \cup {Event(ZulipMessage(StreamMl, s, Content(MentionKita, <<"hello">>)), "user") :
            s \in {9, 10}}

\* a completion may count half of the ceiling, so that a count can reach the
\* ceiling exactly and can pass it
QuotaCompletions ==
    {Completion("answer", FALSE, 0), Completion("answer", TRUE, MaxTokens \div 2)}

InitKita ==
    /\ phase = "running"
    /\ requests = <<>>
    /\ file = FileMissing
    /\ nextUuid = 0
    /\ sent = <<>>
    /\ loads = 0
    /\ writes = "none"
    /\ now = 0
    /\ limiter = [last_reset |-> 0, num_calls |-> 0]
    /\ threads = [t \in Threads |-> Idle]
    /\ pass = NoPass
    /\ queries = [prev |-> -1, last |-> -1]
    /\ lock = "free"
    /\ callers = <<>>
    /\ probe = NoProbe
    /\ conversation_memory = <<>>
    /\ token_usage = <<>>
    /\ logged = <<>>

Answer == KitaHandleEvent(MemoryEvents, MemoryCompletions)

NextKita == Answer

SpecKita == InitKita /\ [][NextKita]_vars

-----------------------------------------------------------------------------
(* The kita bot counting the tokens of its users against the ceiling          *)

AnswerCounted == KitaHandleEvent(QuotaEvents, QuotaCompletions)

NextQuota == AnswerCounted

SpecQuota == InitKita /\ [][NextQuota]_vars

-----------------------------------------------------------------------------
(* The functions of the bots that depend on their argument alone, each called *)
(* on its own: the two conversation keys and the parser                       *)

\* the accounts of the model
Accounts == {AdminId, 5, 9, 10}

\* display_recipient of a private message: up to MaxParticipants different
\* accounts in any order
ParticipantLists ==
    {ids \in UNION {[1..n -> Accounts] : n \in 1..MaxParticipants} :
        \A i, j \in DOMAIN ids : i # j => ids[i] # ids[j]}

Pm(ids) == [type |-> "private", display_recipient |-> [i \in DOMAIN ids |-> User(ids[i])],
            subject |-> ""]

KeyInputs == {Pm(ids) : ids \in ParticipantLists} \cup {StreamMl, Other}

\* the texts given to the parser: every start of a text with every sequence of
\* words of the router's messages
ParserInputs ==
    {Content(mention, m.content.tokens) :
        mention \in {Mention, MentionOfOther, MentionAlone, ""}, m \in RouterMessages}

\* the exception that leaves get_request_id_from_zulip_message, as a value
ValueError == [py |-> "ValueError"]

\* get_request_id_from_zulip_message(message)
ResolveRequestId ==
    /\ \E message \in KeyInputs :
        probe' = [fn |-> "get_request_id_from_zulip_message", input |-> message,
                  output |-> IF RequestIdRaises(message) THEN ValueError
                             ELSE GetRequestId(message)]
    /\ UNCHANGED <<conversation_memory, token_usage, phase, requests, file, nextUuid, sent, loads, writes, now, limiter,
                   threads, pass, queries, lock, callers, logged>>

\* get_conversation_id(message)
ResolveConversationId ==
    /\ \E message \in KeyInputs :
        probe' = [fn |-> "get_conversation_id", input |-> message,
                  output |-> GetConversationId(message)]
    /\ UNCHANGED <<conversation_memory, token_usage, phase, requests, file, nextUuid, sent, loads, writes, now, limiter,
                   threads, pass, queries, lock, callers, logged>>

\* parse_zulip_message(content, doc)
Parse ==
    /\ \E content \in ParserInputs :
        probe' = [fn |-> "parse_zulip_message", input |-> content,
                  output |-> ParseZulipMessage(content)]
    /\ UNCHANGED <<conversation_memory, token_usage, phase, requests, file, nextUuid, sent, loads, writes, now, limiter,
                   threads, pass, queries, lock, callers, logged>>

\* the hours at which results of the model were published, and the sequences of
\* up to MaxResults results in the order the search returns them: the newest first
PublishHours == {TriggerHour - 2, TriggerHour, TriggerHour + 1, 24 + TriggerHour, 24 + TriggerHour + 1}
SearchResults ==
    {[i \in DOMAIN hours |-> Result("t" \o ToString(hours[i]), "e" \o ToString(hours[i]), hours[i])] :
        hours \in {s \in UNION {[1..n -> PublishHours] : n \in 0..MaxResults} :
                      \A i, j \in DOMAIN s : i < j => s[i] >= s[j]}}

\* send_updates_to_single_request for a stored request, at the trigger hour of
\* the next day, an hour before it, or a day later
SendUpdates ==
    /\ \E request \in {FromDict(F1), FromDict(F3)}, results \in SearchResults,
          clock \in {24 + TriggerHour - 1, 24 + TriggerHour, 2 * 24 + TriggerHour} :
        probe' = [fn |-> "send_updates_to_single_request",
                  input |-> [request |-> request, results |-> results, now |-> clock],
                  output |-> Deliveries(request, results, clock)]
    /\ UNCHANGED <<conversation_memory, token_usage, phase, requests, file, nextUuid, sent, loads, writes, now, limiter,
                   threads, pass, queries, lock, callers, logged>>

InitPure ==
    /\ phase = "init"
    /\ requests = <<>>
    /\ file = FileMissing
    /\ nextUuid = 0
    /\ sent = <<>>
    /\ loads = 0
    /\ writes = "none"
    /\ now = 0
    /\ limiter = [last_reset |-> 0, num_calls |-> 0]
    /\ threads = [t \in Threads |-> Idle]
    /\ pass = NoPass
    /\ queries = [prev |-> -1, last |-> -1]
    /\ lock = "free"
    /\ callers = <<>>
    /\ probe = NoProbe
    /\ conversation_memory = <<>>
    /\ token_usage = <<>>
    /\ logged = <<>>

NextPure == ResolveRequestId \/ ResolveConversationId \/ Parse \/ SendUpdates

SpecPure == InitPure /\ [][NextPure]_vars

-----------------------------------------------------------------------------
(* Claims *)

KeyLive(reqs, key) == \E i \in DOMAIN reqs : reqs[i].id = key

\* the accounts of a private message, whatever their order
Participants(message) ==
    {message.display_recipient[i].id : i \in DOMAIN message.display_recipient}

\* C1: in every reachable state of the registry, no two live subscriptions have
\* the same conversation key.
C1_NoDuplicateKeys ==
    \A i, j \in DOMAIN requests : i # j => requests[i].id # requests[j].id

IsCommand(m, cmd) ==
    /\ m.sender_email # BotEmail
    /\ ParseZulipMessage(m.content).kind = "args"
    /\ ParseZulipMessage(m.content).cmd = cmd

\* the set commands in a conversation that has a key, and the rm commands
SetMessages == {m \in RouterMessages : IsCommand(m, "set") /\ ~RequestIdRaises(m)}
RmMessages == {m \in RouterMessages : IsCommand(m, "rm")}

\* what handle_event does with message m in the current state, for every way the
\* file system may treat a write
Outcomes(m) == {HandleEventOutcome(State, m, w) : w \in WriteOutcomes}

\* C2: a set in a conversation whose key is live makes Add return false: the
\* registry and the file stay as they are and the reply says that the topic
\* already exists; so a request is only ever stored under a key that was not
\* live, and Add returned true exactly once for each live key.
C2_SecondSetRejected ==
    /\ [](phase = "running" =>
            \A m \in SetMessages :
                KeyLive(requests, GetRequestId(m)) =>
                    \A o \in Outcomes(m) :
                        /\ o.requests = requests
                        /\ o.file = file
                        /\ o.nextUuid = nextUuid
                        /\ o.writes = "none"
                        /\ o.sent = <<Send(FromZulipMessage(m, BotEmail), TextExists)>>)
    /\ [][ phase = "running" =>
            \A i \in DOMAIN requests' :
                ~Contains(requests, requests'[i].uuid)
                => ~KeyLive(requests, requests'[i].id) ]_vars

\* a second set was answered: by another sender than the owner of the live
\* subscription and with another query text
C2_Witness ==
    /\ sent # <<>>
    /\ sent[1].content = TextExists
    /\ \E i \in DOMAIN requests :
        /\ requests[i].uuid = Uuid(1)
        /\ requests[i].owner_id = 9
        /\ requests[i].query = "all:GAN"
        /\ requests[i].id = StreamKey

\* C3: a rm of a live subscription by a sender who is neither its owner nor the
\* administrator changes neither the registry nor the file, writes nothing, and
\* is answered with the denial.
C3_UnauthorizedRemoveDenied ==
    phase = "running" =>
        \A m \in RmMessages :
            ( /\ Contains(requests, m.content.tokens[2])
              /\ m.sender_id # Get(requests, m.content.tokens[2]).owner_id
              /\ m.sender_id # AdminId )
            => \A o \in Outcomes(m) :
                /\ o.requests = requests
                /\ o.file = file
                /\ o.writes = "none"
                /\ o.sent = <<Send(FromZulipMessage(m, BotEmail), TextDenied)>>

C3_Witness ==
    /\ sent # <<>>
    /\ sent[1].content = TextDenied
    /\ requests # <<>>

\* the snapshot holds exactly the subscriptions of the registry, in its order
SnapshotHolds(f, reqs) ==
    /\ f.kind = "json"
    /\ f.raw.py = "list"
    /\ Len(f.raw.items) = Len(reqs)
    /\ \A i \in DOMAIN reqs :
        LET rec == f.raw.items[i]
        IN  /\ DOMAIN rec = {"id", "uuid", "query", "owner_id", "message"}
            /\ rec.uuid = reqs[i].uuid
            /\ rec.id.items = reqs[i].id.items
            /\ rec.query = reqs[i].query
            /\ rec.owner_id = reqs[i].owner_id
            /\ rec.message.type = reqs[i].message.type
            /\ rec.message.subject = reqs[i].message.subject
            /\ rec.message.to = reqs[i].message.to

\* C8: every command that changes the registry also writes the snapshot, and
\* after a write that did not fail the snapshot holds exactly the subscriptions
\* of the registry; the exit handler writes it too; the file is read once, at
\* startup.
C8_SnapshotFollowsRegistry ==
    /\ [](writes = "ok" => SnapshotHolds(file, requests))
    /\ [](phase = "stopped" => writes \in WriteOutcomes)
    /\ [](loads <= 1 /\ (phase # "init" => loads = 1))
    /\ [][ /\ (phase = "running" /\ requests' # requests) => writes' \in WriteOutcomes
           /\ loads' # loads => phase = "init" ]_vars

\* a set and then a rm, both written
C8_Witness ==
    /\ phase = "running"
    /\ writes = "ok"
    /\ sent # <<>>
    /\ sent[1].content = TextRemoved
    /\ nextUuid = 1
    /\ Len(requests) = 1

\* C9: save_to_file followed by load_from_file gives back the registry: the same
\* subscriptions (id, key, query, owner, reply target) in the same order.
C9_SaveLoadRoundTrip ==
    phase \in {"running", "stopped"} =>
        LET loaded == LoadFromFile(SaveToFile(requests, file, "ok"))
        IN  /\ ~loaded.raised
            /\ loaded.requests = requests

\* a registry with a stream subscription made by set and a private one
C9_Witness ==
    /\ phase = "running"
    /\ Len(requests) = 2
    /\ requests[1].id = PmKey
    /\ requests[2].id = StreamKey
    /\ requests[2].uuid = Uuid(1)
    /\ file = SaveToFile(requests, file, "ok")

\* a record json.load can give that is no well-formed subscription record
MalformedRecord(data) ==
    \/ "py" \in DOMAIN data
    \/ ~({"id", "uuid", "query", "owner_id", "message"} \subseteq DOMAIN data)
    \/ data.id.py # "list"
    \/ ~({"type", "to"} \subseteq DOMAIN data.message)

Corrupted(f) ==
    \/ f.kind \in {"missing", "unreadable", "invalid"}
    \/ f.raw.py # "list"
    \/ \E i \in DOMAIN f.raw.items : MalformedRecord(f.raw.items[i])

C11_WriteFailureKeepsRegistry ==
    /\ [](phase = "running" =>
            \A m \in SetMessages \cup RmMessages :
                \A ok \in {HandleEventOutcome(State, m, "ok")} :
                    ok.writes = "ok" =>
                        \A w \in FailedWrites :
                            \A o \in {HandleEventOutcome(State, m, w)} :
                                /\ o.requests = ok.requests
                                /\ o.requests # requests
                                /\ o.nextUuid = ok.nextUuid
                                /\ o.sent = ok.sent
                                /\ o.sent # <<>>
                                /\ o.writes = w)
    /\ [][ (writes \in FailedWrites /\ writes' = "ok")
            => SnapshotHolds(file', requests') ]_vars

\* a set was acknowledged although its write broke the file
C11_Witness ==
    /\ phase = "running"
    /\ writes = "dump_failed"
    /\ file = FileInvalid
    /\ sent # <<>>
    /\ sent[1].content = TextAdded(Uuid(1))
    /\ \E i \in DOMAIN requests : requests[i].uuid = Uuid(1)

\* the text does not start with the mention of the bot
Unmentioned(m) == m.content.mention \notin {Mention, MentionAlone}

\* C13: for a message without the mention of the bot the parser returns no
\* result, and the router sends nothing and changes nothing.
C13_UnmentionedIgnored ==
    phase = "running" =>
        \A m \in RouterMessages :
            (m.sender_email # BotEmail /\ Unmentioned(m)) =>
                /\ ParseZulipMessage(m.content) = ParsedNone
                /\ \A o \in Outcomes(m) : o = Nothing(State, <<>>)

\* C14: a message whose sender is the bot itself is never answered and never
\* changes the registry or the file, whatever its text and its conversation, in
\* every state the bot reaches: no output of the bot leads to further output.
C14_OwnMessagesIgnored ==
    phase = "running" =>
        \A m \in RouterMessages :
            m.sender_email = BotEmail =>
                \A o \in Outcomes(m) :
                    /\ o.sent = <<>>
                    /\ o.requests = requests
                    /\ o.file = file
                    /\ o.writes = "none"
                    /\ o.dispatch = ""

\* an event left no payload behind, after a set had stored a subscription and
\* sent its acknowledgement
C14_Witness ==
    /\ phase = "running"
    /\ sent = <<>>
    /\ writes = "none"
    /\ nextUuid = 1
    /\ \E i \in DOMAIN requests : requests[i].uuid = Uuid(1)

\* a message of a type that is neither private nor stream
Untyped(m) == m.type \notin {"private", "stream"}

\* C17: for a message of a type that is neither private nor stream the key
\* resolution raises; the set command that asked for the key stores nothing
\* and writes nothing, handle_event logs the exception and returns, and the bot
\* keeps running and handling events.
C17_UnsupportedTypeAbortsEvent ==
    /\ [](phase = "running" =>
            \A m \in RouterMessages :
                (Untyped(m) /\ IsCommand(m, "set")) =>
                    /\ EventError(m) = "ValueError"
                    /\ \A o \in Outcomes(m) :
                        /\ o.requests = requests
                        /\ o.file = file
                        /\ o.nextUuid = nextUuid
                        /\ o.writes = "none"
                        /\ HandleEventLog(m, o) = <<LogHandleEvent>>)
    /\ [](phase # "crashed")
    /\ [][ logged' = <<LogHandleEvent>> =>
            /\ phase' = "running"
            /\ requests' = requests
            /\ file' = file
            /\ threads'["ev"].pc = "idle" ]_vars

\* the exception of a set in a message of another type was logged, after a set
\* in a stream had stored a subscription; the bot is running
C17_Witness ==
    /\ phase = "running"
    /\ logged = <<LogHandleEvent>>
    /\ sent = <<>>
    /\ nextUuid = 1
    /\ \E i \in DOMAIN requests : requests[i].uuid = Uuid(1)

\* the query a set command of the model asks for
ExpectedQuery(tokens) ==
    IF Len(tokens) = 2 THEN tokens[2] ELSE "cat:cs.LG AND all:GAN"

\* the reply sink of message m: the stream and its topic, or the other
\* participants of the private thread
IsReplySink(sink, m) ==
    /\ sink.type = m.type
    /\ m.type = "stream" => (sink.to = m.display_recipient /\ sink.subject = m.subject)
    /\ m.type = "private" =>
        /\ sink.subject = NoneVal
        /\ sink.to.py = "list"
        /\ Range(sink.to.items) =
            {Email(id) : id \in Participants(m) \cup {m.sender_id}} \ {BotEmail}

\* C19: a set in a conversation whose key is not live appends exactly one
\* subscription and leaves the others as they are; its query is the tokens
\* joined by blanks, its owner the sender, its key the key of the message, its
\* reply target the reply sink of the message, its id a new one; the snapshot
\* is written (and holds the registry when the write succeeds) and the one
\* reply carries the new id.
C19_SetAddsSubscription ==
    phase = "running" =>
        \A m \in SetMessages :
            ~KeyLive(requests, GetRequestId(m)) =>
                \A w \in WriteOutcomes :
                    \A o \in {HandleEventOutcome(State, m, w)} :
                        /\ Len(o.requests) = Len(requests) + 1
                        /\ \A i \in DOMAIN requests : o.requests[i] = requests[i]
                        /\ \A new \in {o.requests[Len(o.requests)]} :
                            /\ new.query = ExpectedQuery(m.content.tokens)
                            /\ new.owner_id = m.sender_id
                            /\ new.id = GetRequestId(m)
                            /\ IsReplySink(new.message, m)
                            /\ ~Contains(requests, new.uuid)
                            /\ o.sent = <<Send(new.message, TextAdded(new.uuid))>>
                        /\ o.writes = w
                        /\ w = "ok" => SnapshotHolds(o.file, o.requests)

\* a set of user 10 in the private thread stored the three-token query
C19_Witness ==
    /\ phase = "running"
    /\ writes = "ok"
    /\ sent = <<Send(Message("private", NoneVal, PyList(<<Email(9), Email(10)>>)),
                     TextAdded(Uuid(1)))>>
    /\ requests # <<>>
    /\ requests[Len(requests)] =
        Request(PmKey, Uuid(1), "cat:cs.LG AND all:GAN", 10,
                Message("private", NoneVal, PyList(<<Email(9), Email(10)>>)))

\* the list commands, with and without "all"
ListMessages == {m \in RouterMessages : IsCommand(m, "list")}

\* C20: a list command changes neither the registry nor the file and sends
\* one reply; under its heading the reply lists every subscription when "all"
\* is given and else exactly those the sender owns, in the order of the
\* registry, and it is the "None." fallback when there is none to list.
C20_ListShowsOwnOrAll ==
    phase = "running" =>
        \A m \in ListMessages :
            \A o \in Outcomes(m) :
                /\ o.requests = requests
                /\ o.file = file
                /\ o.writes = "none"
                /\ Len(o.sent) = 1
                /\ \A lines \in {ListLines(requests, m.content.tokens = <<"list", "all">>,
                                            m.sender_id)} :
                    \E head \in {"All search topics: ", "Your search topics: "} :
                        o.sent[1].content = head \o (IF lines = "" THEN "None." ELSE lines)

-----------------------------------------------------------------------------
(* Claims about the dispatcher *)

\* C4: any two external queries, of the scheduled pass or of a force command,
\* start at least Period seconds apart.
C4_QueriesSpaced ==
    queries.prev >= 0 => queries.last - queries.prev >= Period

\* C5: a failure of the query or of the delivery for one subscription neither
\* leaves the pass nor stops it: the pass is always at the next id of its
\* snapshot, and it ends only when every id of the snapshot was dispatched; an
\* id is passed over without a query only when it is no longer in the registry.
C5_PassSurvivesFailures ==
    /\ pass.state # "crashed"
    /\ \A k \in DOMAIN pass.log :
        /\ pass.log[k].id = pass.snapshot[k]
        /\ pass.log[k].result = "missing" => ~Contains(requests, pass.log[k].id)
    /\ pass.state = "done" => Len(pass.log) = Len(pass.snapshot)
    /\ pass.state = "running" =>
        /\ Len(pass.log) = pass.i - 1
        /\ pass.i \in DOMAIN pass.snapshot
        /\ threads["sched"].pc \in {"limit", "sleep", "query"}
        /\ threads["sched"].rid = pass.snapshot[pass.i]

\* a pass over three subscriptions ended: the query of the second failed, the
\* first and the third were delivered
C5_Witness ==
    /\ pass.state = "done"
    /\ Len(pass.snapshot) = 3
    /\ pass.log[1].result = "ok"
    /\ pass.log[2].result = "query_failed"
    /\ pass.log[3].result = "ok"

ForceUnknown(m) ==
    /\ IsCommand(m, "force")
    /\ ~Contains(requests, m.content.tokens[2])

\* C6: a force for an id that is not in the registry is answered with "not
\* found"; the step changes neither the limiter nor the record of the queries,
\* and the event loop does not enter send_updates_to_single_request.
C6_ForceUnknownTouchesNothing ==
    [][ \A m \in DispatchMessages :
            (ForceUnknown(m) /\ HandleEvent({m}, {"ok"}))
            => /\ limiter' = limiter
               /\ queries' = queries
               /\ threads' = threads
               /\ requests' = requests
               /\ sent' = <<Send(FromZulipMessage(m, BotEmail),
                                 TextNotFound(m.content.tokens[2]))>> ]_vars

\* the force was answered while the scheduler's thread held the limiter's slot
C6_Witness ==
    /\ sent # <<>>
    /\ sent[1].content = TextNotFound("zz")
    /\ limiter.num_calls = 1
    /\ threads["ev"].pc = "idle"

\* C12: every command that is not filtered out is answered with a text: when
\* handle_event returns without a dispatch it has sent a reply; when the
\* dispatch a force command entered returns, a text was sent, and after a
\* failure of the query or of the delivery that text is an error reply, not the
\* results; a failure in the scheduled pass is logged and answered by nothing.
C12_EveryCommandAnswered ==
    /\ [](phase = "running" =>
            \A m \in DispatchMessages :
                (m.sender_email # BotEmail /\ m.content.mention = Mention) =>
                    \A o \in {HandleEventOutcome(State, m, "ok")} :
                        o.dispatch = "" => o.sent # <<>>)
    /\ [][ (threads["ev"].pc = "query" /\ threads'["ev"].pc = "idle") =>
            /\ sent' # <<>>
            /\ logged' = <<LogDispatch>> => sent'[Len(sent')].content \notin ResultTexts ]_vars
    /\ [][ (threads["sched"].pc = "query" /\ threads'["sched"].pc # "query"
             /\ logged' = <<LogDispatch>>) =>
            \A i \in DOMAIN sent' : sent'[i].content \in ResultTexts ]_vars

-----------------------------------------------------------------------------
(* Claims about the conversation key and the parser *)

KeyFunctions == {"get_request_id_from_zulip_message", "get_conversation_id"}

\* C15: two private messages with the same participants, listed in any two
\* orders, get the same conversation key, from the arxiv bot and from the kita bot.
C15_KeyIgnoresOrder ==
    [][ ( /\ probe.fn \in KeyFunctions
          /\ probe'.fn = probe.fn
          /\ probe.input.type = "private"
          /\ probe'.input.type = "private"
          /\ Participants(probe'.input) = Participants(probe.input) )
        => probe'.output = probe.output ]_vars

\* the key of the thread of 9, 10 and the bot, listed as 10, bot, 9
C15_Witness ==
    /\ probe.fn = "get_request_id_from_zulip_message"
    /\ probe.input = PmB
    /\ probe.output = GetRequestId(PmA)
    /\ PmA.display_recipient # PmB.display_recipient

\* the account a decimal string of the model stands for
IdNum(str) ==
    CASE str = "0" -> 0
      [] str = "5" -> 5
      [] str = "9" -> 9
      [] str = "10" -> 10

\* C16: the key the arxiv bot gives a private message is a tuple of strings, one
\* for each participant, in ascending order of the numbers they stand for.
C16_KeySortedNumerically ==
    (probe.fn = "get_request_id_from_zulip_message" /\ probe.input.type = "private") =>
        /\ probe.output.py = "tuple"
        /\ Len(probe.output.items) = Len(probe.input.display_recipient)
        /\ \A i \in DOMAIN probe.output.items :
            /\ probe.output.items[i] \in {"0", "5", "9", "10"}
            /\ IdNum(probe.output.items[i]) \in Participants(probe.input)
        /\ \A i, j \in DOMAIN probe.output.items :
            i < j => IdNum(probe.output.items[i]) < IdNum(probe.output.items[j])

\* the text starts with a mention marker
LeadingMention(content) == content.mention # ""

HelpFlag(tokens) == \E i \in DOMAIN tokens : tokens[i] \in {"--help", "-h"}

\* the usage of Arxiv.doc has a pattern for the tokens
GrammarMatches(tokens) ==
    /\ tokens # <<>>
    /\ \A i \in DOMAIN tokens : ~IsOption(tokens[i])
    /\ \/ tokens[1] = "set" /\ Len(tokens) >= 2
       \/ tokens \in {<<"list">>, <<"list", "all">>}
       \/ tokens[1] \in {"rm", "force"} /\ Len(tokens) = 2

\* C18: the parser returns for every text, by this precedence: no result when
\* the text has no leading mention; else a prompt holding the whole remainder
\* when the words cannot be tokenized; else the help marker when a help flag is
\* among the tokens; else the command when the tokens match the usage; else the
\* help marker.
C18_ParserPrecedence ==
    probe.fn = "parse_zulip_message" =>
        IF ~LeadingMention(probe.input) THEN probe.output = ParsedNone
        ELSE IF ShlexRaises(probe.input.tokens)
             THEN probe.output = ParsedPrompt(Join(probe.input.tokens))
        ELSE IF HelpFlag(probe.input.tokens) THEN probe.output = ParsedHelp
        ELSE IF GrammarMatches(probe.input.tokens)
             THEN /\ probe.output.kind = "args"
                  /\ probe.output.cmd = probe.input.tokens[1]
        ELSE probe.output = ParsedHelp

-----------------------------------------------------------------------------
(* Claims about concurrent callers of the registry *)

Returned(key, result) ==
    {c \in Callers : callers[c].req.id = key /\ callers[c].result = result}

Stored(key) == {i \in DOMAIN requests : requests[i].id = key}

\* C7: in every interleaving of concurrent add calls, at most one call per
\* conversation key returns true and at most one request per key is stored; when
\* all calls have returned, exactly one call per key returned true, the others
\* false, and exactly one request with that key is stored.
C7_AddAtomic ==
    \A key \in {StreamKey, PmKey} :
        /\ Cardinality(Returned(key, "true")) <= 1
        /\ Cardinality(Stored(key)) <= 1
        /\ ( /\ \A c \in Callers : callers[c].pc = "done"
             /\ \E c \in Callers : callers[c].req.id = key )
           => /\ Cardinality(Returned(key, "true")) = 1
              /\ Cardinality(Stored(key)) = 1
              /\ Returned(key, "none") = {}

\* three calls for one key have returned; the call that entered last returned true
C7_Witness ==
    /\ \A c \in Callers : callers[c].pc = "done" /\ callers[c].req.id = StreamKey
    /\ callers["c"].result = "true"
    /\ callers["a"].result = "false"
    /\ callers["b"].result = "false"

-----------------------------------------------------------------------------
(* Claims about the registry's entries *)

\* the request stored under id is in reqs as it is in the current registry
Kept(reqs, id) == Contains(reqs, id) /\ Get(reqs, id) = Get(requests, id)

\* C21: remove returns False for an id that is not in the registry and leaves
\* the registry as it is; for an id that is, it returns True and deletes that
\* request and no other, the others staying as they were and in their order; and
\* no step changes a request that stays in the registry.
C21_RemoveFrame ==
    /\ [](\A id \in QueryIds :
            LET res == Remove(requests, id)
            IN  IF ~Contains(requests, id)
                THEN ~res.ok /\ res.requests = requests
                ELSE /\ res.ok
                     /\ ~Contains(res.requests, id)
                     /\ Len(res.requests) = Len(requests) - 1
                     /\ \A i \in DOMAIN requests :
                            requests[i].uuid # id => Kept(res.requests, requests[i].uuid)
                     /\ \A i, j \in DOMAIN res.requests :
                            i < j => \E k, l \in DOMAIN requests :
                                        /\ k < l
                                        /\ requests[k] = res.requests[i]
                                        /\ requests[l] = res.requests[j])
    /\ [][ \A i \in DOMAIN requests :
              Contains(requests', requests[i].uuid) =>
                  Get(requests', requests[i].uuid) = requests[i] ]_vars

\* a loaded request was removed while a request added by a set stayed, with the
\* query and the owner of its set
C21_Witness ==
    /\ sent # <<>>
    /\ sent[1].content = TextRemoved
    /\ ~Contains(requests, "f3")
    /\ Contains(requests, Uuid(1))
    /\ Get(requests, Uuid(1)).query = "cat:cs.LG AND all:GAN"
    /\ Get(requests, Uuid(1)).owner_id = 10

\* the rm of request id by the administrator, and the force of it
AdminRm(id) == ZulipMessage(StreamMl, AdminId, Content(Mention, <<"rm", id>>))
AnyForce(id) == ZulipMessage(StreamMl, 9, Content(Mention, <<"force", id>>))

\* C29: every request of the registry is the one get returns for its own uuid;
\* after load_from_file each record of the file is found under the "uuid" the
\* file gives it; the uuid a set echoes is the key of the request it stored; and
\* rm and force accept the uuid of every stored request.
C29_EntriesKeyedByOwnId ==
    /\ [](\A i \in DOMAIN requests :
            /\ Get(requests, requests[i].uuid) = requests[i]
            /\ phase = "running" =>
                /\ ~Contains(HandleEventOutcome(State, AdminRm(requests[i].uuid), "ok").requests,
                             requests[i].uuid)
                /\ HandleEventOutcome(State, AnyForce(requests[i].uuid), "ok").dispatch
                       = requests[i].uuid)
    /\ [][ (phase = "init" /\ file.kind = "json" /\ LoadError(file) = "") =>
              /\ \A k \in DOMAIN file.raw.items :
                    /\ Contains(requests', file.raw.items[k].uuid)
                    /\ Get(requests', file.raw.items[k].uuid).id.items
                           = file.raw.items[CHOOSE l \in DOMAIN file.raw.items :
                                 /\ file.raw.items[l].uuid = file.raw.items[k].uuid
                                 /\ \A n \in DOMAIN file.raw.items :
                                       file.raw.items[n].uuid = file.raw.items[k].uuid
                                       => n <= l].id.items
              /\ \A i \in DOMAIN requests' :
                    \E k \in DOMAIN file.raw.items :
                        requests'[i].uuid = file.raw.items[k].uuid ]_vars
    /\ [][ \A k \in 1..MaxUuid :
              (sent' # <<>> /\ sent'[1].content = TextAdded(Uuid(k))) =>
                  /\ ~Contains(requests, Uuid(k))
                  /\ Contains(requests', Uuid(k))
                  /\ Get(requests', Uuid(k)).uuid = Uuid(k) ]_vars

\* two records of the file carried the same uuid: the registry holds one request
\* under it, that of the later record
C29_Witness ==
    /\ phase = "running"
    /\ file.kind = "json"
    /\ LoadError(file) = ""
    /\ Len(file.raw.items) = 2
    /\ file.raw.items[1].uuid = file.raw.items[2].uuid
    /\ Len(requests) = 1
    /\ requests[1].uuid = "f1"
    /\ requests[1].query = "cat:cs.LG"

-----------------------------------------------------------------------------
(* Claims about the dispatcher for as long as the bot runs *)

Waiting(t) == threads[t].pc \in {"limit", "sleep"}

-----------------------------------------------------------------------------
(* Claims about the scheduled pass *)

\* the scheduler's thread leaves its idle state: send_updates_to_all_requests is called
PassStarts == threads["sched"].pc = "idle" /\ pass' # pass

\* C25: a pass takes the uuids of the registry once, when it starts, in the
\* order the registry holds them; it goes through them in that order, each id
\* once, one dispatch at a time; a request added while the pass runs is not
\* dispatched by it.
C25_PassFollowsItsSnapshot ==
    /\ [][ PassStarts =>
              /\ Len(pass'.snapshot) = Len(requests)
              /\ \A k \in DOMAIN requests : pass'.snapshot[k] = requests[k].uuid
              /\ pass'.log = <<>> ]_vars
    /\ [][ ~PassStarts =>
              /\ pass'.snapshot = pass.snapshot
              /\ \/ pass'.log = pass.log /\ pass'.i = pass.i
                 \/ /\ pass.state = "running"
                    /\ Len(pass'.log) = Len(pass.log) + 1
                    /\ pass'.log[Len(pass'.log)].id = pass.snapshot[pass.i]
                    /\ \A k \in DOMAIN pass.log : pass'.log[k] = pass.log[k]
                    /\ pass'.i = IF pass'.state = "running" THEN pass.i + 1 ELSE pass.i ]_vars
    /\ [](/\ \A j, k \in DOMAIN pass.snapshot : j # k => pass.snapshot[j] # pass.snapshot[k]
          /\ Len(pass.log) <= Len(pass.snapshot)
          /\ \A k \in DOMAIN pass.log : pass.log[k].id = pass.snapshot[k]
          /\ pass.state = "running" =>
                /\ Len(pass.log) = pass.i - 1
                /\ threads["sched"].rid = pass.snapshot[pass.i]
          /\ pass.state # "running" => threads["sched"].pc = "idle")

\* the pass is at the last id of its snapshot, and the registry holds a request
\* that a set added after the pass had dispatched the first id
C25_Witness ==
    /\ pass.state = "running"
    /\ pass.snapshot = <<"f1", "f3", "f4">>
    /\ pass.i = 3
    /\ pass.log[1].result = "ok"
    /\ Contains(requests, Uuid(1))
    /\ ~Contains(requests, "f1")

\* thread t looks the request up and starts the query in this step
StartsQuery(t) == threads[t].pc = "limit" /\ threads'[t].pc = "query"

\* C30: when rm has answered that the request is removed, it is out of the
\* registry and never comes back; a call of send_updates_to_single_request
\* that looks a removed request up starts no query and delivers nothing: the
\* pass records the id as missing and goes on, a later pass does not have it in
\* its snapshot, and a force of it is answered with "not found".
C30_RemovedIsSkipped ==
    /\ [][ (sent' # sent /\ sent' # <<>> /\ sent'[1].content = TextRemoved) =>
              \E i \in DOMAIN requests :
                  /\ ~Contains(requests', requests[i].uuid)
                  /\ Len(requests') = Len(requests) - 1 ]_vars
    /\ [][ \A i \in DOMAIN requests' :
              Contains(requests, requests'[i].uuid) \/ requests'[i].uuid = Uuid(nextUuid') ]_vars
    /\ [][ /\ \A t \in Threads :
                StartsQuery(t) =>
                    /\ Contains(requests, threads[t].rid)
                    /\ threads'[t].req = Get(requests, threads[t].rid)
           /\ queries' # queries => \E t \in Threads : StartsQuery(t)
           /\ \A t \in Threads :
                (threads[t].pc = "limit" /\ ~Contains(requests, threads[t].rid)) =>
                    /\ ~StartsQuery(t)
                    /\ threads'[t] # threads[t] =>
                          /\ sent' = sent
                          /\ threads'[t].pc \in {"sleep", "idle", "limit"}
           /\ (PassStarts /\ pass'.state = "running") =>
                \A k \in DOMAIN pass'.snapshot : Contains(requests, pass'.snapshot[k]) ]_vars
    /\ [](\A k \in DOMAIN pass.log :
            pass.log[k].result = "missing" => ~Contains(requests, pass.log[k].id))
    /\ [](\A m \in DispatchMessages :
            ForceUnknown(m) =>
                /\ HandleEventOutcome(State, m, "ok").dispatch = ""
                /\ HandleEventOutcome(State, m, "ok").sent
                       = <<Send(FromZulipMessage(m, BotEmail), TextNotFound(m.content.tokens[2]))>>)

\* the pass took its snapshot, then the first request of it was removed: the
\* pass went over it without a query and dispatched the two others
C30_Witness ==
    /\ pass.state = "done"
    /\ pass.snapshot = <<"f1", "f3", "f4">>
    /\ pass.log[1].result = "missing"
    /\ pass.log[2].result = "ok"
    /\ pass.log[3].result = "ok"
    /\ queries.prev >= 0
    /\ threads["ev"].pc = "idle"

\* the force of the event loop and the pass both have their query for one
\* request running
BothQuery ==
    /\ threads["ev"].pc = "query"
    /\ threads["sched"].pc = "query"
    /\ threads["ev"].rid = threads["sched"].rid

\* a call of thread t that the limiter lets through, for a stored request,
\* starts its query whatever the other thread is doing
NoDeduplication ==
    \A t \in Threads :
        ( /\ threads[t].pc = "limit"
          /\ threads'[t] # threads[t]
          /\ Admitted(LimiterCall(limiter, now))
          /\ Contains(requests, threads[t].rid) )
        => StartsQuery(t)

\* C28: a force for a request and a pass that has the request in its snapshot
\* both dispatch it, each with its own query and delivery, and the two queries
\* start at least Period seconds apart.
C28_ForceAndPassBothDispatch ==
    /\ [][NoDeduplication]_vars
    /\ [](BothQuery => queries.last - queries.prev >= Period)

-----------------------------------------------------------------------------
(* Claims about callers that go through the registry *)

\* the threads that are inside a with self._lock block
InsideLock == {c \in Callers : callers[c].pc \in {"copy", "check", "insert", "release", "delete"}}

\* C27: ids and __iter__ make their list while they hold the lock and return
\* without it: the caller's loop sees the items of the time of the call, each
\* once and in order, whatever is added or removed meanwhile, and while it
\* loops the lock is free for add and remove unless one of them holds it.
C27_ReadersGetCopy ==
    /\ [](/\ Cardinality(InsideLock) <= 1
          /\ lock = "free" <=> InsideLock = {}
          /\ lock # "free" => InsideLock = {lock}
          /\ callers["a"].pc \in {"loop", "done"} =>
                /\ lock # "a"
                /\ Len(callers["a"].seen) <= Len(callers["a"].at)
                /\ \A k \in DOMAIN callers["a"].seen : callers["a"].seen[k] = callers["a"].at[k]
          /\ callers["a"].pc = "done" => callers["a"].seen = callers["a"].at)
    /\ [][ /\ callers["a"].pc = "copy" => callers'["a"].at = Items(callers["a"].op, requests)
           /\ callers["a"].pc \in {"loop", "done"} => callers'["a"].at = callers["a"].at
           /\ \A c \in {"b", "c"} :
                (callers["a"].pc = "loop" /\ lock = "free" /\ callers[c].pc \in {"call", "remove"})
                => ENABLED (Acquire(c) \/ RemoveEnter(c)) ]_vars

\* the loop has ended with the two uuids of the time of the call, after one of
\* them was removed and a third request was added
C27_Witness ==
    /\ callers["a"].pc = "done"
    /\ callers["a"].op = "ids"
    /\ callers["a"].seen = <<"f1", "f3">>
    /\ Ids(requests) = <<"f3", "u-b">>
    /\ callers["b"].result = "true"
    /\ callers["c"].result = "true"

-----------------------------------------------------------------------------
(* Claims about the results of a dispatch *)

\* 7 o'clock of the day before the day of clock
YesterdayAtTrigger(clock) ==
    CHOOSE c \in 0..clock : c % 24 = TriggerHour /\ c \div 24 = (clock \div 24) - 1

\* the results newer than the threshold, found by going through all of them
FullScan(results, threshold) ==
    SelectSeq(results, LAMBDA r : r.published > threshold)

\* C26: for results that come with the newest first, a dispatch hands one
\* payload to send_message, addressed like the reply target stored in the
\* request; its text has a line for each result published after 7 o'clock of
\* the day before, and for no other, in the order of the results; with no such
\* result the text is "No new results found.".
C26_NewResultsDelivered ==
    probe.fn = "send_updates_to_single_request" =>
        LET new == FullScan(probe.input.results, YesterdayAtTrigger(probe.input.now))
            lines == [k \in DOMAIN new |->
                         "- [" \o new[k].title \o "](" \o new[k].entry_id \o ")"]
        IN  /\ Len(probe.output) = 1
            /\ probe.output[1].type = probe.input.request.message.type
            /\ probe.output[1].to = probe.input.request.message.to
            /\ probe.output[1].subject = probe.input.request.message.subject
            /\ probe.output[1].content =
                   IF new = <<>> THEN "No new results found." ELSE ResultText(lines)
            /\ new # <<>> => probe.output[1].content # "No new results found."

\* of three results, the first is new, the second was published at the threshold
\* to the hour and the third before it: the text has the line of the first
C26_Witness ==
    /\ probe.fn = "send_updates_to_single_request"
    /\ probe.input.now = 24 + TriggerHour
    /\ Len(probe.input.results) = 3
    /\ probe.input.results[1].published = TriggerHour + 1
    /\ probe.input.results[2].published = TriggerHour
    /\ probe.input.results[3].published = TriggerHour - 2
    /\ probe.output[1].content = "- [t8](e8)"
    /\ probe.output[1].to = PyList(<<Email(9), Email(10)>>)


-----------------------------------------------------------------------------
(* Claims about the kita bot *)

\* the events of a set that a user other than the bot sends with the given words
\* after the mention of kita
FromUsers(events, tokens) ==
    {e \in events : /\ e.sender_type = "user"
                    /\ e.message.sender_email # BotEmail
                    /\ e.message.content = Content(MentionKita, tokens)}

\* the last n items of s
LastN(s, n) == SubSeq(s, Max(1, Len(s) - n + 1), Len(s))

\* the turns a prompt adds to its conversation: the user's, and the assistant's
\* when the completion returned content
Added(e, c) ==
    <<Turn("user", Join(e.message.content.tokens))>>
    \o (IF c.kind = "ok" /\ c.content # "" THEN <<Turn("assistant", c.content)>> ELSE <<>>)

\* C23: in every reachable state each conversation's memory holds at most 10
\* turn records; a prompt leaves in the memory of its conversation the last 10
\* of the old turns followed by the new ones, so that appending to a full memory
\* evicts exactly the oldest record and keeps the rest in order; a reset command
\* empties the memory of its conversation and leaves every other memory as it was
C23_MemoryIsRingOfTen ==
    /\ \A i \in DOMAIN conversation_memory :
        Len(conversation_memory[i].turns) <= MemoryMaxlen
    /\ \A e \in FromUsers(MemoryEvents, <<"hello">>), c \in MemoryCompletions :
        LET o == KitaHandleEventOutcome(conversation_memory, token_usage, e, c)
            conv == Conversation(e.message)
        IN  /\ Turns(o.conversation_memory, conv)
                 = LastN(Turns(conversation_memory, conv) \o Added(e, c), MemoryMaxlen)
            /\ \A i \in DOMAIN conversation_memory :
                ~SameConversation(conversation_memory[i], conv) =>
                    o.conversation_memory[i] = conversation_memory[i]
    /\ \A e \in FromUsers(MemoryEvents, <<"--reset">>), c \in MemoryCompletions :
        LET o == KitaHandleEventOutcome(conversation_memory, token_usage, e, c)
            conv == Conversation(e.message)
        IN  /\ Turns(o.conversation_memory, conv) = <<>>
            /\ \A i \in DOMAIN conversation_memory :
                ~SameConversation(conversation_memory[i], conv) =>
                    o.conversation_memory[i] = conversation_memory[i]

\* the stream topic's memory is full and starts with an assistant's turn, which
\* only the eviction of the user's turn before it brings about, while the
\* private thread holds turns of its own
C23_Witness ==
    /\ Len(conversation_memory) = 2
    /\ \E i, j \in DOMAIN conversation_memory :
        /\ conversation_memory[i].type = "stream"
        /\ Len(conversation_memory[i].turns) = MemoryMaxlen
        /\ conversation_memory[i].turns[1].role = "assistant"
        /\ conversation_memory[i].turns[MemoryMaxlen].role = "user"
        /\ conversation_memory[j].type = "private"
        /\ conversation_memory[j].turns # <<>>


\* no prompt of a user whose count is at least threshold starts a completion or
\* changes the user's count
StopsFrom(threshold) ==
    \A e \in FromUsers(QuotaEvents, <<"hello">>), c \in QuotaCompletions :
        LET o == KitaHandleEventOutcome(conversation_memory, token_usage, e, c)
            sender == e.message.sender_id
        IN  Count(token_usage, sender) >= threshold =>
                /\ o.completions = 0
                /\ Count(o.token_usage, sender) = Count(token_usage, sender)

\* a reset asked by anybody but the administrator changes no count
OthersResetNothing ==
    \A e \in QuotaEvents, c \in QuotaCompletions :
        LET o == KitaHandleEventOutcome(conversation_memory, token_usage, e, c)
        IN  (e.message.sender_id # AdminId /\ e.message.content.tokens[1] = "--reset-tokens")
                => \A u \in DOMAIN token_usage \cup DOMAIN o.token_usage :
                       Count(o.token_usage, u) = Count(token_usage, u)

\* a count goes down only by a reset of the administrator
OnlyAdminLowers ==
    \A e \in QuotaEvents, c \in QuotaCompletions :
        LET o == KitaHandleEventOutcome(conversation_memory, token_usage, e, c)
        IN  \A u \in DOMAIN token_usage :
                Count(o.token_usage, u) < token_usage[u] =>
                    /\ e.message.sender_id = AdminId
                    /\ e.message.content.tokens[1] = "--reset-tokens"

\* the counts as the code keeps them: a prompt is refused once the count has
\* passed the ceiling; at the ceiling it is still answered
CountsAsCoded == StopsFrom(MaxTokens + 1) /\ OthersResetNothing /\ OnlyAdminLowers

\* C24: once a user's count has reached the ceiling, a prompt of that user starts
\* no completion and leaves the count as it is; a reset asked by a
\* non-administrator changes no count; nothing but the administrator's reset
\* lowers a count
C24_CeilingStopsCompletions == StopsFrom(MaxTokens) /\ OthersResetNothing /\ OnlyAdminLowers

\* a user whose count is the ceiling exactly
AtCeiling == \E u \in DOMAIN token_usage : token_usage[u] = MaxTokens

\* a user whose count has passed the ceiling
PastCeiling == \E u \in DOMAIN token_usage : token_usage[u] > MaxTokens

====
